---- MODULE Spec2Model ----
(***************************************************************************)
(* The connection fan-out engine of easyflow-backend (pkg/websockets):     *)
(* the Hub and its Run loop, the Rooms with their client maps and          *)
(* reader-writer locks, and the Clients with their reader, writer and      *)
(* cleanup.  Every Go task (goroutine) is a program counter; every Go      *)
(* sync.RWMutex is a reader count plus the writers that announced Lock     *)
(* (Go blocks new readers while a writer waits); an unbuffered channel     *)
(* send is a rendezvous with the receiver.                                 *)
(***************************************************************************)
EXTENDS Integers, Sequences, FiniteSets, TLC

\* ---------------------------------------------------------------- bounds
MaxClients == 2
MaxRoomObjs == 2
\* frames the peers send, failures of the environment and calls of the
\* shutdown, together
MaxEvents == 2
\* failures of the environment (socket, bus, database)
MaxFaults == 1
\* capacity of Client.send; 256 in client.go:95, scaled down
SendCap == 1
\* calls of GracefulShutdown
MaxCalls == 2
\* broadcast's semaphore width (room.go:65)
FanoutLimit == 100
\* Room.shutdown's semaphore width (room.go:123)
CloseLimit == 50

Clients == 1..MaxClients
RoomObjs == 1..MaxRoomObjs
Calls == 1..MaxCalls
Users == {"A", "B"}
RoomIds == {"r1", "r2"}
\* chats_users, a set of rows <<user_id, chat_id>>: the table is empty at
\* first and gains these rows in this order
RowSeq == <<<<"B", "r1">>, <<"A", "r1">>, <<"B", "r2">>>>
\* the query returns its rows in the order they were inserted
NextRow(rows) ==
    RowSeq[CHOOSE i \in 1..Len(RowSeq) :
        /\ RowSeq[i] \in rows
        /\ \A j \in 1..(i - 1) : RowSeq[j] \notin rows]
Tables == {{RowSeq[i] : i \in 1..n} : n \in 0..Len(RowSeq)}
\* the user a connection may authenticate as (connection 1 is user B)
UsersFor(c) == IF c = 1 THEN {"B"} ELSE Users
\* The frames a peer sends: any room, and possibly a sender_id key of its
\* own making.  The peers of this model write their own user id into data
\* and the room again into iv, so that a message shows where it came from.
FramesOf(uid) ==
    {[room |-> r, data |-> uid, iv |-> r, sender_id |-> s] :
        r \in RoomIds, s \in {""} \cup (Users \ {uid})}

NoRoom == 0
NoClient == 0

VARIABLES
    db,         \* chats_users: a set of rows
    fatal,      \* "no", or why the process died
    \* --- hub
    hubRooms,   \* hub.rooms: room id -> Room object (NoRoom: absent)
    hubReaders, \* hub.roomsMutex: number of read locks held
    hubWait,    \* hub.roomsMutex: Run has called Lock and waits
    subs,       \* bus channels (room ids) the dedicated session is subscribed to
    runPc, runRoom,
    \* --- rooms (objects)
    nObjs,      \* Room objects allocated so far
    objId,      \* Room.id
    rclients,   \* Room.clients: payload id -> Client
    rcount,     \* Room.clientCount
    rReaders,   \* Room.clientsMutex: read locks held
    rWait,      \* Room.clientsMutex: clients whose addClient called Lock and waits
    watch,      \* Room.watchClients task
    \* --- clients
    cpc,        \* ServeWs / newClient / initializeRooms
    user,       \* payload.UserID
    todo,       \* rows of `chats` still to iterate
    cur,        \* the Room object the init loop holds
    rooms,      \* Client.rooms: room id -> Room object
    sendq,      \* Client.send
    closed,     \* Client.send is closed
    cstate,     \* Client.state
    conn,       \* Client.conn is non-nil
    ctxDone,    \* Client.ctx is cancelled
    cmW,        \* Client.roomsMutex is write-held by cleanup
    rpc, rmsg,  \* readMessages, and the clientMessage it decoded
    wpc,        \* writeMessages
    clpc, clRoom, \* cleanup (the sync.Once body), and the Room it is removing from
    errFrames,  \* "Access Denied" frames written to the socket
    readErr,    \* the error chain a reader left its loop with (<<>>: nil)
    \* --- bus, OnMessage, broadcast
    inbound,    \* messages the bus delivered to this hub's session
    opc, bRoom, bMsg,
    visited,    \* map keys the range loop of broadcast has produced
    fan,        \* fan-out goroutines of the running broadcast
    att,        \* what each fan-out's enqueue attempt did
    natt,       \* enqueue attempts per client in the running broadcast
    snap,       \* R.clients when broadcast took the read lock
    oracle,     \* chat ids chats_users listed for the Client's user at connect time
    nFrames,    \* frames read so far
    nFaults,    \* failures of the environment so far (socket, bus, database)
    \* --- startup
    retry,      \* a call of the function WithRetry returned
    boot,       \* main's database connection loop
    \* --- shutdown
    isShuttingDown,  \* hub.isShuttingDown
    shutdownCh,      \* hub.shutdownCh: "open" or "closed"
    gpc,             \* the calls of GracefulShutdown: where each is, what it returned
    hctx,            \* the context with the timeout of the first call
    hpc,             \* the goroutine of the shutdown phases
    shutdownStarted, \* Room.shutdownStarted
    scall,           \* the calls of Room.shutdown, by caller and Room
    ipc,             \* initiateGracefulClose, by Room and Client
    closeFrames,     \* shutdown close frames written to the Client's socket
    nCalls           \* calls of GracefulShutdown and Room.shutdown so far

hubVars == <<hubRooms, hubReaders, hubWait, subs, runPc, runRoom>>
roomVars == <<nObjs, objId, rclients, rcount, rReaders, rWait, watch>>
initVars == <<cpc, user, todo, cur>>
clientVars == <<rooms, sendq, closed, cstate, conn, ctxDone, cmW>>
taskVars == <<rpc, rmsg, wpc, clpc, clRoom, errFrames, readErr>>
busVars == <<inbound, opc, bRoom, bMsg, visited, fan, att, natt, snap>>
envVars == <<db, oracle, nFrames, retry, boot>>
sdVars == <<isShuttingDown, shutdownCh, gpc, hctx, hpc, shutdownStarted, scall,
            ipc, closeFrames, nCalls>>
vars == <<fatal, hubVars, roomVars, initVars, clientVars, taskVars, busVars, envVars,
          nFaults, sdVars>>

\* ------------------------------------------------------------- helpers
\* jwt payload.ID, the key of Room.clients: the user id (spec: "a mapping
\* from user id to Client").
PayloadID(c) == user[c]

RKeys(o) == {u \in Users : rclients[o][u] # NoClient}
Members(o) == {rclients[o][u] : u \in RKeys(o)}
RoomSet(c) == {r \in RoomIds : rooms[c][r] # NoRoom}
EmptyRooms == [r \in RoomIds |-> NoRoom]
EmptyClients == [u \in Users |-> NoClient]
\* no call of a WithRetry function is in progress; main has its database
NoCall == [pc |-> "none"]
Connected == [pc |-> "connected"]

Alive == fatal = "no"

\* a setState that puts a closing Client back to connected
setStateReopens(s, new) ==
    IF s \in {"disconnecting", "disconnected", "error"} THEN "connected" ELSE new
\* Client.setState: refuses every transition out of disconnecting,
\* disconnected and error.
setState(s, new) ==
    IF s \in {"disconnecting", "disconnected", "error"} THEN s ELSE new

\* The environment may act again: send a frame, fail, or call the shutdown.
Budget == nFrames + nFaults + nCalls < MaxEvents

\* A failure of the environment (socket, bus, database)
Fault(happens) ==
    IF happens THEN Budget /\ nFaults < MaxFaults /\ nFaults' = nFaults + 1
    ELSE UNCHANGED nFaults

\* The process dies (an unrecovered panic or a fatal runtime error): all of
\* its state is gone.
Halt(why) ==
    /\ fatal' = why
    /\ hubRooms' = [r \in RoomIds |-> NoRoom]
    /\ hubReaders' = 0
    /\ hubWait' = FALSE
    /\ subs' = {}
    /\ runPc' = "select"
    /\ runRoom' = NoRoom
    /\ nObjs' = 0
    /\ objId' = [o \in RoomObjs |-> "r1"]
    /\ rclients' = [o \in RoomObjs |-> EmptyClients]
    /\ rcount' = [o \in RoomObjs |-> 0]
    /\ rReaders' = [o \in RoomObjs |-> 0]
    /\ rWait' = [o \in RoomObjs |-> {}]
    /\ watch' = [o \in RoomObjs |-> "none"]
    /\ cpc' = [c \in Clients |-> "idle"]
    /\ user' = [c \in Clients |-> "A"]
    /\ todo' = [c \in Clients |-> {}]
    /\ cur' = [c \in Clients |-> NoRoom]
    /\ rooms' = [c \in Clients |-> EmptyRooms]
    /\ sendq' = [c \in Clients |-> <<>>]
    /\ closed' = [c \in Clients |-> FALSE]
    /\ cstate' = [c \in Clients |-> "none"]
    /\ conn' = [c \in Clients |-> FALSE]
    /\ ctxDone' = [c \in Clients |-> FALSE]
    /\ cmW' = [c \in Clients |-> FALSE]
    /\ rpc' = [c \in Clients |-> "off"]
    /\ rmsg' = [c \in Clients |-> <<>>]
    /\ wpc' = [c \in Clients |-> "off"]
    /\ clpc' = [c \in Clients |-> "none"]
    /\ clRoom' = [c \in Clients |-> NoRoom]
    /\ errFrames' = [c \in Clients |-> 0]
    /\ readErr' = [c \in Clients |-> <<>>]
    /\ inbound' = <<>>
    /\ opc' = "idle"
    /\ bRoom' = NoRoom
    /\ bMsg' = <<>>
    /\ visited' = {}
    /\ fan' = [c \in Clients |-> "none"]
    /\ att' = [c \in Clients |-> "none"]
    /\ natt' = [c \in Clients |-> 0]
    /\ snap' = {}
    /\ db' = {}
    /\ oracle' = [c \in Clients |-> {}]
    /\ nFrames' = 0
    /\ retry' = NoCall
    /\ boot' = Connected
    /\ nFaults' = 0
    /\ isShuttingDown' = FALSE
    /\ shutdownCh' = "open"
    /\ gpc' = [k \in Calls |-> "idle"]
    /\ hctx' = "none"
    /\ hpc' = "none"
    /\ shutdownStarted' = [o \in RoomObjs |-> FALSE]
    /\ scall' = [w \in {"hub", "direct", "again"} |-> [o \in RoomObjs |-> "none"]]
    /\ ipc' = [o \in RoomObjs |-> [c \in Clients |-> "none"]]
    /\ closeFrames' = [c \in Clients |-> 0]
    /\ nCalls' = 0

\* ---------------------------------------------------------------- Init
\* the Hub as NewHub builds it, no connection yet
InitServer ==
    /\ db = {}
    /\ fatal = "no"
    /\ hubRooms = [r \in RoomIds |-> NoRoom]
    /\ hubReaders = 0
    /\ hubWait = FALSE
    /\ subs = {}
    /\ runPc = "select"
    /\ runRoom = NoRoom
    /\ nObjs = 0
    /\ objId = [o \in RoomObjs |-> "r1"]
    /\ rclients = [o \in RoomObjs |-> EmptyClients]
    /\ rcount = [o \in RoomObjs |-> 0]
    /\ rReaders = [o \in RoomObjs |-> 0]
    /\ rWait = [o \in RoomObjs |-> {}]
    /\ watch = [o \in RoomObjs |-> "none"]
    /\ cpc = [c \in Clients |-> "idle"]
    /\ user = [c \in Clients |-> "A"]
    /\ todo = [c \in Clients |-> {}]
    /\ cur = [c \in Clients |-> NoRoom]
    /\ rooms = [c \in Clients |-> EmptyRooms]
    /\ sendq = [c \in Clients |-> <<>>]
    /\ closed = [c \in Clients |-> FALSE]
    /\ cstate = [c \in Clients |-> "none"]
    /\ conn = [c \in Clients |-> FALSE]
    /\ ctxDone = [c \in Clients |-> FALSE]
    /\ cmW = [c \in Clients |-> FALSE]
    /\ rpc = [c \in Clients |-> "off"]
    /\ rmsg = [c \in Clients |-> <<>>]
    /\ wpc = [c \in Clients |-> "off"]
    /\ clpc = [c \in Clients |-> "none"]
    /\ clRoom = [c \in Clients |-> NoRoom]
    /\ errFrames = [c \in Clients |-> 0]
    /\ readErr = [c \in Clients |-> <<>>]
    /\ inbound = <<>>
    /\ opc = "idle"
    /\ bRoom = NoRoom
    /\ bMsg = <<>>
    /\ visited = {}
    /\ fan = [c \in Clients |-> "none"]
    /\ att = [c \in Clients |-> "none"]
    /\ natt = [c \in Clients |-> 0]
    /\ snap = {}
    /\ oracle = [c \in Clients |-> {}]
    /\ nFrames = 0
    /\ nFaults = 0
    /\ isShuttingDown = FALSE
    /\ shutdownCh = "open"
    /\ gpc = [k \in Calls |-> "idle"]
    /\ hctx = "none"
    /\ hpc = "none"
    /\ shutdownStarted = [o \in RoomObjs |-> FALSE]
    /\ scall = [w \in {"hub", "direct", "again"} |-> [o \in RoomObjs |-> "none"]]
    /\ ipc = [o \in RoomObjs |-> [c \in Clients |-> "none"]]
    /\ closeFrames = [c \in Clients |-> 0]
    /\ nCalls = 0

\* main has connected to the database and to the bus and serves
Init ==
    /\ InitServer
    /\ retry = NoCall
    /\ boot = Connected

\* ------------------------------------------------------------ database
\* hub.db.Find(&chats).Where("user_id = ?", uid): Find is the finisher, it
\* runs the query before Where adds its condition, so `chats` is every row
\* of the table.
FindChats(table, uid) == table

\* what chats_users lists for a user: SELECT chat_id ... WHERE user_id = uid
MembershipOracle(table, uid) == {row[2] : row \in {x \in table : x[1] = uid}}

\* ------------------------------------------- ServeWs, newClient, init
\* ServeWs upgrades, newClient builds the Client and initializeRooms runs
\* its query; `table` is chats_users as the query finds it (rows the REST
\* side added since the last query included).
ServeWs(c, u, table) ==
    /\ Alive
    /\ cpc[c] = "idle"
    /\ db \subseteq table
    /\ db' = table
    /\ oracle' = [oracle EXCEPT ![c] = MembershipOracle(table, u)]
    /\ cpc' = [cpc EXCEPT ![c] = "rlock"]
    /\ user' = [user EXCEPT ![c] = u]
    /\ todo' = [todo EXCEPT ![c] = FindChats(table, u)]
    /\ cstate' = [cstate EXCEPT ![c] = "connected"]
    /\ conn' = [conn EXCEPT ![c] = TRUE]
    /\ UNCHANGED <<sdVars, fatal, hubVars, roomVars, cur, rooms, sendq, closed, ctxDone,
                   cmW, taskVars, busVars, nFrames, retry, boot, nFaults>>

\* The query fails: newClient cancels the context and returns nil, and
\* ServeWs starts readMessages and writeMessages on the nil Client; their
\* deferred handlers dereference it again and the process dies.
ServeWsDbError(c) ==
    /\ Alive
    /\ cpc[c] = "idle"
    /\ Budget /\ nFaults < MaxFaults
    /\ Halt("nil_client")

\* hub.roomsMutex.RLock() in initializeRooms
initRLock(c) ==
    /\ Alive
    /\ cpc[c] = "rlock"
    /\ ~hubWait
    /\ hubReaders' = hubReaders + 1
    /\ cpc' = [cpc EXCEPT ![c] = "loop"]
    /\ UNCHANGED <<sdVars, fatal, hubRooms, hubWait, subs, runPc, runRoom, roomVars,
                   user, todo, cur, clientVars, taskVars, busVars, envVars, nFaults>>

\* one iteration of `for _, chat := range chats`: look the room up, or
\* allocate a Room (newRoom up to its channel send)
initializeRooms(c) ==
    /\ Alive
    /\ cpc[c] = "loop"
    /\ todo[c] # {}
    /\ LET row == NextRow(todo[c]) IN
        /\ todo' = [todo EXCEPT ![c] = @ \ {row}]
        /\ IF hubRooms[row[2]] # NoRoom
           THEN /\ cur' = [cur EXCEPT ![c] = hubRooms[row[2]]]
                /\ cpc' = [cpc EXCEPT ![c] = "add"]
                /\ UNCHANGED <<nObjs, objId>>
           ELSE /\ nObjs < MaxRoomObjs
                /\ nObjs' = nObjs + 1
                /\ objId' = [objId EXCEPT ![nObjs + 1] = row[2]]
                /\ cur' = [cur EXCEPT ![c] = nObjs + 1]
                /\ cpc' = [cpc EXCEPT ![c] = "send_add"]
    /\ UNCHANGED <<sdVars, fatal, hubVars, rclients, rcount, rReaders, rWait, watch,
                   user, clientVars, taskVars, busVars, envVars, nFaults>>

\* Room.addClient: Lock, insert, back-reference, count, Unlock.  While a
\* reader holds Room.clientsMutex the caller waits, and its waiting blocks
\* new readers.
addClientBody(c, o) ==
    /\ rclients' = [rclients EXCEPT ![o][PayloadID(c)] = c]
    /\ rooms' = [rooms EXCEPT ![c][objId[o]] = o]
    /\ rcount' = [rcount EXCEPT ![o] = @ + 1]

addClient(c) ==
    /\ Alive
    /\ cpc[c] = "add"
    /\ LET o == cur[c] IN
        \/ /\ rReaders[o] = 0
           /\ addClientBody(c, o)
           /\ rWait' = [rWait EXCEPT ![o] = @ \ {c}]
           /\ cpc' = [cpc EXCEPT ![c] = "loop"]
        \/ /\ rReaders[o] > 0
           /\ c \notin rWait[o]
           /\ rWait' = [rWait EXCEPT ![o] = @ \cup {c}]
           /\ UNCHANGED <<rclients, rooms, rcount, cpc>>
    /\ UNCHANGED <<sdVars, fatal, hubVars, nObjs, objId, rReaders, watch, user, todo,
                   cur, sendq, closed, cstate, conn, ctxDone, cmW,
                   taskVars, busVars, envVars, nFaults>>

\* initializeRooms returns (deferred RUnlock), newClient returns, ServeWs
\* starts the reader and the writer.
initDone(c) ==
    /\ Alive
    /\ cpc[c] = "loop"
    /\ todo[c] = {}
    /\ hubReaders' = hubReaders - 1
    /\ cpc' = [cpc EXCEPT ![c] = "done"]
    /\ rpc' = [rpc EXCEPT ![c] = "read"]
    /\ wpc' = [wpc EXCEPT ![c] = "run"]
    /\ UNCHANGED <<sdVars, fatal, hubRooms, hubWait, subs, runPc, runRoom, roomVars,
                   user, todo, cur, clientVars, rmsg, clpc, clRoom, errFrames, readErr,
                   busVars, envVars, nFaults>>

\* ------------------------------------------------------------- hub.Run
\* case room := <-h.addRoom: the rendezvous with newRoom's send, after
\* which newRoom starts the watcher and returns.
RunRecvAdd(c) ==
    /\ Alive
    /\ runPc = "select"
    /\ cpc[c] = "send_add"
    /\ runPc' = "add_lock"
    /\ runRoom' = cur[c]
    /\ cpc' = [cpc EXCEPT ![c] = "add"]
    /\ watch' = [watch EXCEPT ![cur[c]] = "run"]
    /\ UNCHANGED <<sdVars, fatal, hubRooms, hubReaders, hubWait, subs, nObjs, objId,
                   rclients, rcount, rReaders, rWait, user, todo, cur,
                   clientVars, taskVars, busVars, envVars, nFaults>>

\* h.roomsMutex.Lock(); h.rooms[room.id] = room; Unlock
RunAddLock ==
    /\ Alive
    /\ runPc = "add_lock"
    /\ \/ /\ hubReaders = 0
          /\ hubRooms' = [hubRooms EXCEPT ![objId[runRoom]] = runRoom]
          /\ hubWait' = FALSE
          /\ runPc' = "add_sub"
       \/ /\ hubReaders > 0
          /\ ~hubWait
          /\ hubWait' = TRUE
          /\ UNCHANGED <<hubRooms, runPc>>
    /\ UNCHANGED <<sdVars, fatal, hubReaders, subs, runRoom, roomVars, initVars,
                   clientVars, taskVars, busVars, envVars, nFaults>>

\* c.Do(Subscribe room-<id>)
RunSubscribe ==
    /\ Alive
    /\ runPc = "add_sub"
    /\ subs' = subs \cup {objId[runRoom]}
    /\ runPc' = "select"
    /\ UNCHANGED <<sdVars, fatal, hubRooms, hubReaders, hubWait, runRoom, roomVars,
                   initVars, clientVars, taskVars, busVars, envVars, nFaults>>

\* Room.watchClients: a tick that finds clientCount < 1 sends the Room on
\* hub.removeRoom (a tick that finds clients changes nothing).
watchClients(o) ==
    /\ Alive
    /\ watch[o] = "run"
    /\ rcount[o] < 1
    /\ watch' = [watch EXCEPT ![o] = "send"]
    /\ UNCHANGED <<sdVars, fatal, hubVars, nObjs, objId, rclients, rcount, rReaders,
                   rWait, initVars, clientVars, taskVars, busVars, envVars, nFaults>>

\* case room := <-h.removeRoom
RunRecvRemove(o) ==
    /\ Alive
    /\ runPc = "select"
    /\ watch[o] = "send"
    /\ runPc' = "rm_lock"
    /\ runRoom' = o
    /\ watch' = [watch EXCEPT ![o] = "done"]
    /\ UNCHANGED <<sdVars, fatal, hubRooms, hubReaders, hubWait, subs, nObjs, objId,
                   rclients, rcount, rReaders, rWait, initVars, clientVars,
                   taskVars, busVars, envVars, nFaults>>

\* h.roomsMutex.Lock(); delete(h.rooms, room.id); Unlock
RunRemoveLock ==
    /\ Alive
    /\ runPc = "rm_lock"
    /\ \/ /\ hubReaders = 0
          /\ hubRooms' = [hubRooms EXCEPT ![objId[runRoom]] = NoRoom]
          /\ hubWait' = FALSE
          /\ runPc' = "rm_unsub"
       \/ /\ hubReaders > 0
          /\ ~hubWait
          /\ hubWait' = TRUE
          /\ UNCHANGED <<hubRooms, runPc>>
    /\ UNCHANGED <<sdVars, fatal, hubReaders, subs, runRoom, roomVars, initVars,
                   clientVars, taskVars, busVars, envVars, nFaults>>

\* a remove-room case that leaves the bus subscription in place
RunUnsubscribeKeeps ==
    /\ Alive
    /\ runPc = "rm_unsub"
    /\ runPc' = "select"
    /\ UNCHANGED <<sdVars, fatal, hubRooms, hubReaders, hubWait, subs, runRoom, roomVars,
                   initVars, clientVars, taskVars, busVars, envVars, nFaults>>

\* c.Do(Unsubscribe room-<id>)
RunUnsubscribe ==
    /\ Alive
    /\ runPc = "rm_unsub"
    /\ subs' = subs \ {objId[runRoom]}
    /\ runPc' = "select"
    /\ UNCHANGED <<sdVars, fatal, hubRooms, hubReaders, hubWait, runRoom, roomVars,
                   initVars, clientVars, taskVars, busVars, envVars, nFaults>>

\* case err := <-wait: panic(err)
RunBusError ==
    /\ Alive
    /\ runPc = "select"
    /\ Budget /\ nFaults < MaxFaults
    /\ Halt("bus")

\* ------------------------------------------------------------ messages
\* conn.ReadJSON(&msg) into clientMessage: the keys room, data and iv; any
\* other key of the frame is dropped.
ReadJSON(f) == [Room |-> f.room, Data |-> f.data, Iv |-> f.iv]

\* a message that names no sender
messageUnsigned(uid, msg) ==
    [Room |-> msg.Room, Data |-> msg.Data, Iv |-> msg.Iv, SenderID |-> ""]
\* message{clientMessage: msg, SenderID: c.payload.UserID}
message(uid, msg) ==
    [Room |-> msg.Room, Data |-> msg.Data, Iv |-> msg.Iv, SenderID |-> uid]

\* json.Marshal(message) and json.Unmarshal(payload, &message)
Marshal(m) ==
    [room |-> m.Room, data |-> m.Data, iv |-> m.Iv, sender_id |-> m.SenderID]
Unmarshal(p) ==
    [Room |-> p.room, Data |-> p.data, Iv |-> p.iv, SenderID |-> p.sender_id]

\* a cleanup without the Once: every caller runs the body from its start
OnceDoAlways(c) == "start"
\* sync.Once: the first caller of cleanup runs the body, the others wait
\* for it to return.
OnceDo(c) == IF clpc[c] = "none" THEN "start" ELSE clpc[c]

\* -------------------------------------------------------- readMessages
\* The errors conn.ReadJSON returns: a close frame of the peer with its
\* code (normal closure, going away, another code; the code of a socket
\* that closed with no close frame is 1006), a frame over the read limit
\* set by conn.SetReadLimit(maxMessageSize), JSON that does not parse or
\* has a field of the wrong type, a read deadline that passed.
CloseErrors == {"close_1000", "close_1001", "close_1006"}
ReadErrors ==
    CloseErrors \cup {"read_limit", "json_syntax", "json_type", "timeout"}

\* websocket.IsCloseError(err, CloseNormalClosure, CloseGoingAway)
IsCloseError(err) == err \in {"close_1000", "close_1001"}
\* websocket.IsUnexpectedCloseError(err, CloseNormalClosure, CloseGoingAway)
IsUnexpectedCloseError(err) == err \in CloseErrors /\ ~IsCloseError(err)

\* An error is the chain of what it is and what it wraps with %w, outermost
\* first; errors.Is(e, target) finds target anywhere in the chain.
errorsIs(e, target) == \E i \in 1..Len(e) : e[i] = target

\* readErr after a failed ReadJSON: "unexpected close error: %w" and
\* "websocket read error: %w" wrap err, ErrConnectionClosed is returned as
\* it is, "%w: invalid JSON ..." wraps ErrInvalidMessage
readErrOf(err) ==
    IF IsUnexpectedCloseError(err) THEN <<"unexpected_close", err>>
    ELSE IF IsCloseError(err) THEN <<"ErrConnectionClosed">>
    ELSE IF err \in {"json_syntax", "json_type"} THEN <<"ErrInvalidMessage">>
    ELSE <<"read_error", err>>

\* the reader leaves its loop with readErr set; the deferred handler calls
\* cleanup
readReturn(c, kind) ==
    /\ Alive
    /\ rpc[c] = "read"
    /\ rpc' = [rpc EXCEPT ![c] = "cleanup"]
    /\ readErr' = [readErr EXCEPT ![c] = kind]
    /\ clpc' = [clpc EXCEPT ![c] = OnceDo(c)]
    /\ UNCHANGED <<sdVars, fatal, hubVars, roomVars, initVars, clientVars, rmsg, wpc,
                   clRoom, errFrames, busVars, envVars>>

\* case <-c.ctx.Done()
ReaderCtxDone(c) ==
    /\ ctxDone[c]
    /\ readReturn(c, <<"ctx_terminated", "context.Canceled">>)
    /\ UNCHANGED nFaults

\* conn is nil, or ReadJSON fails with one of the errors errs
readFails(c, errs) ==
    /\ Fault(conn[c])
    /\ \E err \in errs :
          readReturn(c, IF conn[c] THEN readErrOf(err) ELSE <<"conn_nil">>)

\* the socket of the peer closes
ReaderReadError(c) == readFails(c, {"close_1006"})
\* ReadJSON fails in any of its ways
ReaderReadErrorAny(c) == readFails(c, ReadErrors)

\* conn.ReadJSON(&msg) yields a frame
readMessages(c, f) ==
    /\ Alive
    /\ rpc[c] = "read"
    /\ conn[c]
    /\ Budget
    /\ nFrames' = nFrames + 1
    /\ rmsg' = [rmsg EXCEPT ![c] = ReadJSON(f)]
    /\ rpc' = [rpc EXCEPT ![c] = "handle"]
    /\ UNCHANGED <<sdVars, fatal, hubVars, roomVars, initVars, clientVars, wpc, clpc,
                   clRoom, errFrames, readErr, busVars, db, oracle, retry, boot,
                   nFaults>>

\* sendErrorMessage: nil conn, or a write that fails, is an error
sendErrorMessage(connected, writeOk) == connected /\ writeOk

\* a handleMessage that returns ErrRoomAccess for every absent room
handleMessageErrStrict(exists, sent, published) ==
    IF ~exists THEN "ErrRoomAccess"
    ELSE IF published THEN "nil" ELSE "publish"
\* the error handleMessage returns; readMessages goes on only after nil
handleMessageErr(exists, sent, published) ==
    IF ~exists THEN (IF sent THEN "nil" ELSE "ErrRoomAccess")
    ELSE IF published THEN "nil" ELSE "publish"

\* handleMessage, under c.roomsMutex.RLock.  Room absent from c.rooms:
\* sendErrorMessage writes the "Access Denied" frame to the socket.  Room
\* present: the message is built, marshalled and published on
\* room-<room.id>, and the bus hands it to every session subscribed to that
\* channel.  An error returned ends the reader, whose deferred handler
\* calls cleanup.
handleMessage(c, ok) ==
    /\ Alive
    /\ rpc[c] = "handle"
    /\ ~cmW[c]
    /\ rmsg' = [rmsg EXCEPT ![c] = <<>>]
    /\ LET o == rooms[c][rmsg[c].Room]
           exists == o # NoRoom
           sent == ~exists /\ sendErrorMessage(conn[c], ok)
           published == exists /\ ok
           err == handleMessageErr(exists, sent, published)
       IN
        /\ Fault(~ok /\ (exists \/ conn[c]))
        /\ ok => (exists \/ conn[c])
        /\ errFrames' = [errFrames EXCEPT ![c] = IF sent THEN @ + 1 ELSE @]
        /\ inbound' = IF published /\ objId[o] \in subs
                      THEN Append(inbound, Marshal(message(user[c], rmsg[c])))
                      ELSE inbound
        /\ IF err = "nil"
           THEN /\ rpc' = [rpc EXCEPT ![c] = "read"]
                /\ UNCHANGED <<clpc, readErr>>
           ELSE /\ rpc' = [rpc EXCEPT ![c] = "cleanup"]
                /\ readErr' = [readErr EXCEPT ![c] = <<"handling", err>>]
                /\ clpc' = [clpc EXCEPT ![c] = OnceDo(c)]
    /\ UNCHANGED <<sdVars, fatal, hubVars, roomVars, initVars, clientVars, wpc, clRoom,
                   opc, bRoom, bMsg, visited, fan, att, natt, snap, envVars>>

\* ------------------------------------------------------- writeMessages
\* case <-c.ctx.Done()
WriterCtxDone(c) ==
    /\ Alive
    /\ wpc[c] = "run"
    /\ ctxDone[c]
    /\ wpc' = [wpc EXCEPT ![c] = "cleanup"]
    /\ clpc' = [clpc EXCEPT ![c] = OnceDo(c)]
    /\ UNCHANGED <<sdVars, fatal, hubVars, roomVars, initVars, clientVars, rpc, rmsg,
                   clRoom, errFrames, readErr, busVars, envVars, nFaults>>

\* case msg, ok := <-c.send: a message is taken and written; a nil conn or
\* a failed write ends the writer
WriterSend(c, writeOk) ==
    /\ Alive
    /\ wpc[c] = "run"
    /\ sendq[c] # <<>>
    /\ sendq' = [sendq EXCEPT ![c] = Tail(@)]
    /\ conn[c] \/ writeOk
    /\ Fault(~writeOk)
    /\ IF conn[c] /\ writeOk
       THEN UNCHANGED <<wpc, clpc>>
       ELSE /\ wpc' = [wpc EXCEPT ![c] = "cleanup"]
            /\ clpc' = [clpc EXCEPT ![c] = OnceDo(c)]
    /\ UNCHANGED <<sdVars, fatal, hubVars, roomVars, initVars, rooms, closed, cstate,
                   conn, ctxDone, cmW, rpc, rmsg, clRoom, errFrames, readErr,
                   busVars, envVars>>

\* case msg, ok := <-c.send with the channel closed and drained
WriterClosed(c) ==
    /\ Alive
    /\ wpc[c] = "run"
    /\ closed[c]
    /\ sendq[c] = <<>>
    /\ wpc' = [wpc EXCEPT ![c] = "cleanup"]
    /\ clpc' = [clpc EXCEPT ![c] = OnceDo(c)]
    /\ UNCHANGED <<sdVars, fatal, hubVars, roomVars, initVars, clientVars, rpc, rmsg,
                   clRoom, errFrames, readErr, busVars, envVars, nFaults>>

\* case <-ticker.C: the ping finds conn nil or its write fails (a ping that
\* is written changes nothing)
WriterPingError(c) ==
    /\ Alive
    /\ wpc[c] = "run"
    /\ Fault(conn[c])
    /\ wpc' = [wpc EXCEPT ![c] = "cleanup"]
    /\ clpc' = [clpc EXCEPT ![c] = OnceDo(c)]
    /\ UNCHANGED <<sdVars, fatal, hubVars, roomVars, initVars, clientVars, rpc, rmsg,
                   clRoom, errFrames, readErr, busVars, envVars>>

\* ------------------------------------------------------------- cleanup
\* c.cancel(); c.setState(stateDisconnecting); the conn is taken out of the
\* Client, sent a best-effort close frame and closed; c.roomsMutex.Lock()
\* (its other holders, handleMessage and the last step of removeClient,
\* hold it within one step of theirs).
cleanupStart(c) ==
    /\ Alive
    /\ clpc[c] = "start"
    /\ ~cmW[c]
    /\ ctxDone' = [ctxDone EXCEPT ![c] = TRUE]
    /\ cstate' = [cstate EXCEPT ![c] = setState(@, "disconnecting")]
    /\ conn' = [conn EXCEPT ![c] = FALSE]
    /\ cmW' = [cmW EXCEPT ![c] = TRUE]
    /\ clpc' = [clpc EXCEPT ![c] = "loop"]
    /\ UNCHANGED <<sdVars, fatal, hubVars, roomVars, initVars, rooms, sendq, closed,
                   rpc, rmsg, wpc, clRoom, errFrames, readErr, busVars, envVars, nFaults>>

\* for roomID, room := range c.rooms { room.removeClient(c) }: the call is
\* made with c.roomsMutex still write-held.
cleanupRange(c) ==
    /\ Alive
    /\ clpc[c] = "loop"
    /\ \E r \in RoomSet(c) :
        clRoom' = [clRoom EXCEPT ![c] = rooms[c][r]]
    /\ clpc' = [clpc EXCEPT ![c] = "rm_rlock"]
    /\ UNCHANGED <<sdVars, fatal, hubVars, roomVars, initVars, clientVars, rpc, rmsg,
                   wpc, errFrames, readErr, busVars, envVars, nFaults>>

\* `select { case _, ok := <-c.send: if ok { close } default: close }`: a
\* queued message is taken off before the close.
closeSend(q) == IF q # <<>> THEN Tail(q) ELSE q

\* a cleanup that closes the send queue without waiting for the Client to
\* be out of its Rooms
cleanupFinishEarly(c) ==
    /\ Alive
    /\ clpc[c] = "loop"
    /\ rooms' = [rooms EXCEPT ![c] = EmptyRooms]
    /\ cmW' = [cmW EXCEPT ![c] = FALSE]
    /\ sendq' = [sendq EXCEPT ![c] = closeSend(@)]
    /\ closed' = [closed EXCEPT ![c] = TRUE]
    /\ cstate' = [cstate EXCEPT ![c] = setState(@, "disconnected")]
    /\ clpc' = [clpc EXCEPT ![c] = "done"]
    /\ UNCHANGED <<sdVars, fatal, hubVars, roomVars, initVars, conn, ctxDone, rpc,
                   rmsg, wpc, clRoom, errFrames, readErr, busVars, envVars, nFaults>>

\* the loop is over: c.rooms = nil, Unlock, close(c.send), the stats line,
\* c.setState(stateDisconnected); cleanup returns.
cleanupFinish(c) ==
    /\ Alive
    /\ clpc[c] = "loop"
    /\ RoomSet(c) = {}
    /\ rooms' = [rooms EXCEPT ![c] = EmptyRooms]
    /\ cmW' = [cmW EXCEPT ![c] = FALSE]
    /\ sendq' = [sendq EXCEPT ![c] = closeSend(@)]
    /\ closed' = [closed EXCEPT ![c] = TRUE]
    /\ cstate' = [cstate EXCEPT ![c] = setState(@, "disconnected")]
    /\ clpc' = [clpc EXCEPT ![c] = "done"]
    /\ UNCHANGED <<sdVars, fatal, hubVars, roomVars, initVars, conn, ctxDone, rpc,
                   rmsg, wpc, clRoom, errFrames, readErr, busVars, envVars, nFaults>>

\* -------------------------------------------------- Room.removeClient
\* A call is made by cleanup (k = "cl", on clRoom[c]) or by a fan-out
\* goroutine of broadcast (k = "fan", on bRoom).
Callers == {"cl", "fan"}
rmPc(k, c) == IF k = "cl" THEN clpc[c] ELSE fan[c]
rmRoom(k, c) == IF k = "cl" THEN clRoom[c] ELSE bRoom
rmGoto(k, c, pc) ==
    /\ clpc' = IF k = "cl" THEN [clpc EXCEPT ![c] = pc] ELSE clpc
    /\ fan' = IF k = "fan" THEN [fan EXCEPT ![c] = pc] ELSE fan

\* r.clientsMutex.RLock(): a read lock, refused while an addClient waits
removeClientRLock(k, c) ==
    /\ Alive
    /\ rmPc(k, c) = "rm_rlock"
    /\ rWait[rmRoom(k, c)] = {}
    /\ rReaders' = [rReaders EXCEPT ![rmRoom(k, c)] = @ + 1]
    /\ rmGoto(k, c, "rm_delete")
    /\ UNCHANGED <<sdVars, fatal, hubVars, nObjs, objId, rclients, rcount, rWait, watch,
                   initVars, clientVars, rpc, rmsg, wpc, clRoom, errFrames, readErr,
                   inbound, opc, bRoom, bMsg, visited, att, natt, snap,
                   envVars, nFaults>>

\* The map write is made under the read lock: it races with the range loop
\* of a broadcast that has not finished iterating and with the delete of
\* another removeClient on the same Room.
RacesWith(k, c) ==
    LET o == rmRoom(k, c) IN
    \/ opc = "iter" /\ bRoom = o /\ RKeys(o) \ visited # {}
    \/ \E k2 \in Callers, c2 \in Clients :
          /\ <<k2, c2>> # <<k, c>>
          /\ rmPc(k2, c2) = "rm_delete"
          /\ rmRoom(k2, c2) = o

\* delete(r.clients, client.payload.ID); r.clientCount.Add(-1)
removeClientDelete(k, c) ==
    /\ Alive
    /\ rmPc(k, c) = "rm_delete"
    /\ LET o == rmRoom(k, c) IN
        \/ /\ rclients' = [rclients EXCEPT ![o][PayloadID(c)] = NoClient]
           /\ rcount' = [rcount EXCEPT ![o] = @ - 1]
           /\ rmGoto(k, c, "rm_lockc")
           /\ UNCHANGED <<sdVars, fatal, hubVars, nObjs, objId, rReaders, rWait, watch,
                          initVars, clientVars, rpc, rmsg, wpc, clRoom,
                          errFrames, readErr, inbound, opc, bRoom, bMsg, visited, att,
                          natt, snap, envVars, nFaults>>
        \/ /\ RacesWith(k, c)
           /\ Halt("map_race")

\* client.roomsMutex.Lock(); delete(client.rooms, r.id); both deferred
\* unlocks
removeClientUnlink(k, c) ==
    /\ Alive
    /\ rmPc(k, c) = "rm_lockc"
    /\ ~cmW[c]
    /\ rooms' = [rooms EXCEPT ![c][objId[rmRoom(k, c)]] = NoRoom]
    /\ rReaders' = [rReaders EXCEPT ![rmRoom(k, c)] = @ - 1]
    /\ rmGoto(k, c, IF k = "cl" THEN "loop" ELSE "done")
    /\ UNCHANGED <<sdVars, fatal, hubVars, nObjs, objId, rclients, rcount, rWait, watch,
                   initVars, sendq, closed, cstate, conn, ctxDone, cmW,
                   rpc, rmsg, wpc, clRoom, errFrames, readErr, inbound, opc, bRoom, bMsg,
                   visited, att, natt, snap, envVars, nFaults>>

\* ------------------------------------------- OnMessage, Room.broadcast
\* The hook of the dedicated session: Unmarshal, h.roomsMutex.RLock(), look
\* the room up; an unknown room is logged and dropped.
OnMessage ==
    /\ Alive
    /\ opc = "idle"
    /\ inbound # <<>>
    /\ ~hubWait
    /\ inbound' = Tail(inbound)
    /\ LET m == Unmarshal(Head(inbound)) IN
        IF hubRooms[m.Room] # NoRoom
        THEN /\ hubReaders' = hubReaders + 1
             /\ bRoom' = hubRooms[m.Room]
             /\ bMsg' = m
             /\ opc' = "b_rlock"
        ELSE UNCHANGED <<hubReaders, bRoom, bMsg, opc>>
    /\ UNCHANGED <<sdVars, fatal, hubRooms, hubWait, subs, runPc, runRoom, roomVars,
                   initVars, clientVars, taskVars, visited, fan, att, natt,
                   snap, envVars, nFaults>>

\* r.clientsMutex.RLock() in broadcast
broadcastRLock ==
    /\ Alive
    /\ opc = "b_rlock"
    /\ rWait[bRoom] = {}
    /\ rReaders' = [rReaders EXCEPT ![bRoom] = @ + 1]
    /\ snap' = Members(bRoom)
    /\ opc' = "iter"
    /\ UNCHANGED <<sdVars, fatal, hubVars, nObjs, objId, rclients, rcount, rWait, watch,
                   initVars, clientVars, taskVars, inbound, bRoom, bMsg,
                   visited, fan, att, natt, envVars, nFaults>>

\* one iteration of `for _, c := range r.clients`: the next entry the map
\* still holds; wg.Add, the semaphore, and the goroutine for it
broadcastSpawn(u) ==
    /\ Alive
    /\ opc = "iter"
    /\ u \in RKeys(bRoom) \ visited
    /\ Cardinality({c \in Clients : fan[c] \notin {"none", "done"}}) < FanoutLimit
    /\ visited' = visited \cup {u}
    /\ fan' = [fan EXCEPT ![rclients[bRoom][u]] = "try"]
    /\ UNCHANGED <<sdVars, fatal, hubVars, roomVars, initVars, clientVars, taskVars,
                   inbound, opc, bRoom, bMsg, att, natt, snap, envVars, nFaults>>

\* a select whose default branch removes nobody
selectNoDefault(c) ==
    IF closed[c] THEN Halt("send_on_closed")
    ELSE /\ natt' = [natt EXCEPT ![c] = @ + 1]
         /\ IF Len(sendq[c]) < SendCap
            THEN /\ sendq' = [sendq EXCEPT ![c] = Append(@, bMsg)]
                 /\ att' = [att EXCEPT ![c] = "sent"]
            ELSE /\ att' = [att EXCEPT ![c] = "full"]
                 /\ UNCHANGED sendq
         /\ fan' = [fan EXCEPT ![c] = "done"]
         /\ UNCHANGED <<sdVars, fatal, hubVars, roomVars, initVars, rooms, closed,
                        cstate, conn, ctxDone, cmW, taskVars, inbound,
                        opc, bRoom, bMsg, visited, snap, envVars, nFaults>>
\* select { case client.send <- message: default: r.removeClient(client) }
\* (a send on a closed channel panics in a goroutine that recovers nothing)
select(c) ==
    IF closed[c] THEN Halt("send_on_closed")
    ELSE /\ natt' = [natt EXCEPT ![c] = @ + 1]
         /\ IF Len(sendq[c]) < SendCap
            THEN /\ sendq' = [sendq EXCEPT ![c] = Append(@, bMsg)]
                 /\ att' = [att EXCEPT ![c] = "sent"]
                 /\ fan' = [fan EXCEPT ![c] = "done"]
            ELSE /\ att' = [att EXCEPT ![c] = "full"]
                 /\ fan' = [fan EXCEPT ![c] = "rm_rlock"]
                 /\ UNCHANGED sendq
         /\ UNCHANGED <<sdVars, fatal, hubVars, roomVars, initVars, rooms, closed,
                        cstate, conn, ctxDone, cmW, taskVars, inbound,
                        opc, bRoom, bMsg, visited, snap, envVars, nFaults>>

trySend(c) ==
    /\ Alive
    /\ fan[c] = "try"
    /\ select(c)

\* the range loop is over and wg.Wait() returns
broadcastReturn ==
    /\ Alive
    /\ opc = "iter"
    /\ RKeys(bRoom) \subseteq visited
    /\ \A c \in Clients : fan[c] \in {"none", "done"}
    /\ opc' = "ret"
    /\ UNCHANGED <<sdVars, fatal, hubVars, roomVars, initVars, clientVars, taskVars,
                   inbound, bRoom, bMsg, visited, fan, att, natt, snap, envVars,
                   nFaults>>

\* broadcast returns (the deferred r.clientsMutex.RUnlock()) and OnMessage
\* returns (the deferred h.roomsMutex.RUnlock())
OnMessageReturn ==
    /\ Alive
    /\ opc = "ret"
    /\ rReaders' = [rReaders EXCEPT ![bRoom] = @ - 1]
    /\ hubReaders' = hubReaders - 1
    /\ opc' = "idle"
    /\ bRoom' = NoRoom
    /\ bMsg' = <<>>
    /\ visited' = {}
    /\ snap' = {}
    /\ fan' = [c \in Clients |-> "none"]
    /\ att' = [c \in Clients |-> "none"]
    /\ natt' = [c \in Clients |-> 0]
    /\ UNCHANGED <<sdVars, fatal, hubRooms, hubWait, subs, runPc, runRoom, nObjs, objId,
                   rclients, rcount, rWait, watch, initVars, clientVars,
                   taskVars, inbound, envVars, nFaults>>

\* ---------------------------------------------------------------- Next
Next ==
    \/ \E c \in Clients, u \in Users, table \in Tables :
          u \in UsersFor(c) /\ ServeWs(c, u, table)
    \/ \E c \in Clients : ServeWsDbError(c)
    \/ \E c \in Clients : initRLock(c)
    \/ \E c \in Clients : initializeRooms(c)
    \/ \E c \in Clients : addClient(c)
    \/ \E c \in Clients : initDone(c)
    \/ \E c \in Clients : RunRecvAdd(c)
    \/ RunAddLock
    \/ RunSubscribe
    \/ \E o \in RoomObjs : watchClients(o)
    \/ \E o \in RoomObjs : RunRecvRemove(o)
    \/ RunRemoveLock
    \/ RunUnsubscribe
    \/ RunBusError
    \/ \E c \in Clients : ReaderCtxDone(c)
    \/ \E c \in Clients : ReaderReadError(c)
    \/ \E c \in Clients : \E f \in FramesOf(user[c]) : readMessages(c, f)
    \/ \E c \in Clients, ok \in BOOLEAN : handleMessage(c, ok)
    \/ \E c \in Clients : WriterCtxDone(c)
    \/ \E c \in Clients, ok \in BOOLEAN : WriterSend(c, ok)
    \/ \E c \in Clients : WriterClosed(c)
    \/ \E c \in Clients : WriterPingError(c)
    \/ \E c \in Clients : cleanupStart(c)
    \/ \E c \in Clients : cleanupRange(c)
    \/ \E c \in Clients : cleanupFinish(c)
    \/ \E k \in Callers, c \in Clients : removeClientRLock(k, c)
    \/ \E k \in Callers, c \in Clients : removeClientDelete(k, c)
    \/ \E k \in Callers, c \in Clients : removeClientUnlink(k, c)
    \/ OnMessage
    \/ broadcastRLock
    \/ \E u \in Users : broadcastSpawn(u)
    \/ \E c \in Clients : trySend(c)
    \/ broadcastReturn
    \/ OnMessageReturn

Spec == Init /\ [][Next]_vars

\* ------------------------------------------------- hub.GracefulShutdown
\* A goroutine parked in a select is woken by the first of its channels to
\* become ready: the step that makes a channel ready moves the goroutines
\* parked on it.

\* a Swap that never finds the flag set
SwapNever(old) == FALSE
\* atomic.Bool.Swap(true) returns the value it replaced
Swap(old) == old

\* Every Client that has connected is initialized, connected, reading, in
\* the client map of each Room of its room set, each of them registered;
\* the Hub is idle and no watcher is retiring a Room.
Calm ==
    /\ opc = "idle" /\ runPc = "select" /\ inbound = <<>>
    /\ \A o \in RoomObjs : watch[o] # "send"
    /\ \A c \in Clients :
          /\ cpc[c] \in {"idle", "done"}
          /\ cpc[c] = "done" =>
                /\ clpc[c] = "none" /\ cstate[c] = "connected" /\ rpc[c] = "read"
                /\ \A r \in RoomSet(c) :
                      c \in Members(rooms[c][r]) /\ hubRooms[r] = rooms[c][r]

\* GracefulShutdown(timeout), call k: isShuttingDown.Swap(true); a later
\* call returns nil at once; the first makes the context with the timeout,
\* starts the goroutine of the shutdown phases and waits in its select for
\* `done` or ctx.Done().
GracefulShutdown(k) ==
    /\ Alive
    /\ gpc[k] = "idle"
    /\ \A j \in 1..(k - 1) : gpc[j] # "idle"
    /\ Budget
    /\ nCalls' = nCalls + 1
    /\ isShuttingDown' = TRUE
    /\ IF Swap(isShuttingDown)
       THEN /\ gpc' = [gpc EXCEPT ![k] = "nil"]
            /\ UNCHANGED <<hctx, hpc>>
       ELSE /\ gpc' = [gpc EXCEPT ![k] = "select"]
            /\ hctx' = "live"
            /\ hpc' = "start"
    /\ UNCHANGED <<fatal, hubVars, roomVars, initVars, clientVars, taskVars,
                   busVars, envVars, nFaults, shutdownCh, shutdownStarted,
                   scall, ipc, closeFrames>>

\* The goroutine of the phases: close(h.shutdownCh); under
\* h.roomsMutex.RLock, one goroutine per registered Room (shutdownWg.Add);
\* then its select on wgDone and ctx.Done(), which a context already done
\* ends at once (close(done)).  Closing a closed channel panics.
HubShutdown ==
    /\ Alive
    /\ hpc = "start"
    /\ ~hubWait
    /\ IF shutdownCh = "closed"
       THEN Halt("close_of_closed")
       ELSE /\ shutdownCh' = "closed"
            /\ scall' = [scall EXCEPT !["hub"] =
                            [o \in RoomObjs |->
                                IF \E r \in RoomIds : hubRooms[r] = o
                                THEN "call" ELSE @[o]]]
            /\ hpc' = IF hctx = "expired" THEN "done" ELSE "wait"
            /\ UNCHANGED <<fatal, hubVars, roomVars, initVars, clientVars,
                           taskVars, busVars, envVars, nFaults, nCalls,
                           isShuttingDown, gpc, hctx, shutdownStarted, ipc,
                           closeFrames>>

\* ------------------------------------------------------- Room.shutdown
Shutters == {"hub", "direct", "again"}

\* an entry that runs the body whatever the flag says
shutdownEnterAlways(started) == "body"
\* `if r.shutdownStarted.Swap(true) { return 0, nil }`
shutdownEnter(started) == IF Swap(started) THEN "noop" ELSE "body"

\* a removeClient is about to write Room o's client map
Deleting(o) ==
    \E k \in Callers, c \in Clients : rmPc(k, c) = "rm_delete" /\ rmRoom(k, c) = o

\* Room.shutdown from its entry to its select, for caller w whose context
\* is done or not: the flag; under r.clientsMutex.RLock the copy of the
\* client references; one goroutine per copied Client (the semaphore admits
\* 50 at a time); the select on waitCh and ctx.Done(), which a context
\* already done ends at once (with no Client to wait for, waitCh may be
\* ready as well).
shutdown(w, o, ctxDoneNow) ==
    /\ IF shutdownEnter(shutdownStarted[o]) = "noop"
       THEN /\ scall' = [scall EXCEPT ![w][o] = "noop"]
            /\ UNCHANGED <<shutdownStarted, ipc>>
       ELSE /\ rWait[o] = {}
            /\ Cardinality(Members(o)) <= CloseLimit
            /\ shutdownStarted' = [shutdownStarted EXCEPT ![o] = TRUE]
            /\ ipc' = [ipc EXCEPT ![o] =
                          [c \in Clients |->
                              IF c \in Members(o) THEN "start" ELSE @[c]]]
            /\ \E res \in {"body", "err"} :
                  /\ res = "err" => ctxDoneNow
                  /\ res = "body" => ~ctxDoneNow \/ Members(o) = {}
                  /\ scall' = [scall EXCEPT ![w][o] = res]
    /\ UNCHANGED <<fatal, hubVars, roomVars, initVars, clientVars, taskVars,
                   busVars, envVars, nFaults, isShuttingDown, shutdownCh,
                   gpc, hctx, hpc, closeFrames>>

\* The copy loop of Room.shutdown reads the client map under the read lock,
\* which a removeClient about to delete holds too: a fatal map race.
shutdownRace(o) ==
    /\ shutdownEnter(shutdownStarted[o]) = "body"
    /\ rWait[o] = {}
    /\ Deleting(o)
    /\ Halt("map_race")

\* The goroutine GracefulShutdown started for Room o runs r.shutdown(ctx).
shutdownByHub(o) ==
    /\ Alive
    /\ scall["hub"][o] = "call"
    /\ \/ shutdown("hub", o, hctx = "expired") /\ UNCHANGED nCalls
       \/ shutdownRace(o)

\* r.shutdown(ctx) called on Room o by a caller other than GracefulShutdown,
\* with a context that is never done: "direct" is the first such call on the
\* Room, "again" one made after it was, while it runs or after it returned.
DirectShutdown(w, o) ==
    /\ Alive
    /\ o <= nObjs
    /\ w \in {"direct", "again"}
    /\ scall[w][o] = "none"
    /\ w = "again" => scall["direct"][o] # "none"
    /\ Budget
    /\ \/ shutdown(w, o, FALSE) /\ nCalls' = nCalls + 1
       \/ shutdownRace(o)

\* The goroutine r.shutdown started for Client c has returned (wg.Done):
\* initiateGracefulClose returned at its first line, or the c.cleanup() it
\* called has (the Once body has run).
closerReturned(o, c) ==
    \/ ipc[o][c] \in {"none", "done"}
    \/ ipc[o][c] = "cleanup" /\ clpc[c] = "done"

\* waitCh is closed (every goroutine of the Room's Clients is done):
\* r.shutdown returns (n, nil).
shutdownReturn(o) ==
    /\ Alive
    /\ \E w \in Shutters : scall[w][o] = "body"
    /\ \A c \in Clients : closerReturned(o, c)
    /\ scall' = [w \in Shutters |->
                    [scall[w] EXCEPT ![o] = IF @ = "body" THEN "nil" ELSE @]]
    /\ UNCHANGED <<fatal, hubVars, roomVars, initVars, clientVars, taskVars,
                   busVars, envVars, nFaults, nCalls, isShuttingDown, shutdownCh,
                   gpc, hctx, hpc, shutdownStarted, ipc, closeFrames>>

\* Every r.shutdown GracefulShutdown started has returned (shutdownWg):
\* wgDone is closed, the goroutine of the phases closes `done` and
\* GracefulShutdown returns nil.
HubShutdownDone ==
    /\ Alive
    /\ hpc = "wait"
    /\ \A o \in RoomObjs : scall["hub"][o] \notin {"call", "body"}
    /\ hpc' = "done"
    /\ gpc' = [k \in Calls |-> IF gpc[k] = "select" THEN "nil" ELSE gpc[k]]
    /\ UNCHANGED <<fatal, hubVars, roomVars, initVars, clientVars, taskVars,
                   busVars, envVars, nFaults, nCalls, isShuttingDown, shutdownCh,
                   hctx, shutdownStarted, scall, ipc, closeFrames>>

\* ---------------------------------------- Client.initiateGracefulClose
\* Room o's shutdown body runs, or ran, for GracefulShutdown
ownedByHub(o) == scall["hub"][o] \in {"body", "err", "nil"}
\* the context r.shutdown handed to initiateGracefulClose is done
clientCtxDone(o) == ownedByHub(o) /\ hctx \in {"soon", "expired"}

\* a setState that reports every transition as made
setStateReturnTrue(s) == TRUE
\* what setState returns: false once the state is disconnecting,
\* disconnected or error
setStateReturn(s) == s \notin {"disconnecting", "disconnected", "error"}

\* `if !c.setState(stateDisconnecting) { return }`; getConn and the close
\* frame (1001, "Server is shutting down"): a nil conn or a failed write
\* goes straight to cleanup, a written frame to the wait for the peer's
\* answer, which a context already done ends at once.
initiateGracefulClose(o, c, writeOk) ==
    /\ Alive
    /\ ipc[o][c] = "start"
    /\ IF ~setStateReturn(cstate[c])
       THEN /\ writeOk
            /\ ipc' = [ipc EXCEPT ![o][c] = "done"]
            /\ UNCHANGED <<cstate, closeFrames, clpc, nFaults>>
       ELSE /\ cstate' = [cstate EXCEPT ![c] = setState(@, "disconnecting")]
            /\ conn[c] \/ writeOk
            /\ Fault(~writeOk)
            /\ IF conn[c] /\ writeOk
               THEN /\ closeFrames' = [closeFrames EXCEPT ![c] = @ + 1]
                    /\ IF clientCtxDone(o)
                       THEN /\ ipc' = [ipc EXCEPT ![o][c] = "cleanup"]
                            /\ clpc' = [clpc EXCEPT ![c] = OnceDo(c)]
                       ELSE /\ ipc' = [ipc EXCEPT ![o][c] = "wait"]
                            /\ UNCHANGED clpc
               ELSE /\ ipc' = [ipc EXCEPT ![o][c] = "cleanup"]
                    /\ clpc' = [clpc EXCEPT ![c] = OnceDo(c)]
                    /\ UNCHANGED closeFrames
    /\ UNCHANGED <<fatal, hubVars, roomVars, initVars, rooms, sendq, closed,
                   conn, ctxDone, cmW, rpc, rmsg, wpc, clRoom, errFrames, readErr,
                   busVars, envVars, nCalls, isShuttingDown, shutdownCh, gpc,
                   hctx, hpc, shutdownStarted, scall>>

\* The peer answers the close frame (with the code it was sent, going away)
\* and the reader reads the answer: ReadJSON runs the close handler and
\* returns the close error, so the reader ends in cleanup.  The handler that closes closeAckCh is installed
\* after the frame was written (client.go:184, 197), unsynchronized with
\* the reader: an answer read before that runs the old handler and the wait
\* goes on.  With closeAckCh closed initiateGracefulClose calls cleanup.
ReadCloseAck(o, c, installed) ==
    /\ Alive
    /\ ipc[o][c] = "wait"
    /\ rpc[c] = "read"
    /\ conn[c]
    /\ rpc' = [rpc EXCEPT ![c] = "cleanup"]
    /\ readErr' = [readErr EXCEPT ![c] = readErrOf("close_1001")]
    /\ clpc' = [clpc EXCEPT ![c] = OnceDo(c)]
    /\ ipc' = [ipc EXCEPT ![o][c] = IF installed THEN "cleanup" ELSE @]
    /\ UNCHANGED <<fatal, hubVars, roomVars, initVars, clientVars, rmsg, wpc,
                   clRoom, errFrames, busVars, envVars, nFaults, nCalls,
                   isShuttingDown, shutdownCh, gpc, hctx, hpc, shutdownStarted,
                   scall, closeFrames>>

\* ------------------------------------------------- the engine at rest
\* The tasks of the engine without traffic and without failures of its own:
\* connections are initialized, the Hub registers and retires Rooms, and a
\* Client whose cleanup was called is cleaned up.  No frame is read, so no
\* broadcast runs and nobody is evicted: the last step of removeClient waits
\* for the roomsMutex that cleanup holds, and a cleanup that found a Room in
\* c.rooms never comes to its end.
Tasks ==
    \/ \E c \in Clients : initRLock(c)
    \/ \E c \in Clients : initializeRooms(c)
    \/ \E c \in Clients : addClient(c)
    \/ \E c \in Clients : initDone(c)
    \/ \E c \in Clients : RunRecvAdd(c)
    \/ RunAddLock
    \/ RunSubscribe
    \/ \E o \in RoomObjs : watchClients(o)
    \/ \E o \in RoomObjs : RunRecvRemove(o)
    \/ RunRemoveLock
    \/ RunUnsubscribe
    \/ \E c \in Clients : ReaderCtxDone(c)
    \/ \E c \in Clients : WriterCtxDone(c)
    \/ \E c \in Clients : cleanupStart(c)
    \/ \E c \in Clients : cleanupRange(c)
    \/ \E k \in Callers, c \in Clients : removeClientRLock(k, c)
    \/ \E k \in Callers, c \in Clients : removeClientDelete(k, c)

\* the steps of a shutdown that are the process's own (a peer's answer to
\* a close frame included)
ShutdownWork ==
    \/ HubShutdown
    \/ \E o \in RoomObjs : shutdownByHub(o)
    \/ \E o \in RoomObjs : shutdownReturn(o)
    \/ HubShutdownDone
    \/ \E o \in RoomObjs, c \in Clients, ok \in BOOLEAN :
          initiateGracefulClose(o, c, ok)
    \/ \E o \in RoomObjs, c \in Clients, h \in BOOLEAN : ReadCloseAck(o, c, h)

\* A step of the process itself: no connection arrives, no frame is read,
\* no call is made, nothing in the environment fails and the process does
\* not die.
ProgNext ==
    /\ Next \/ ShutdownWork
    /\ UNCHANGED <<fatal, nFrames, nFaults, nCalls>>
    /\ \A c \in Clients : cpc[c] = "idle" => cpc'[c] = "idle"

\* The engine at rest has no step left to take, short of a failure.
Stuck == ~ENABLED ((Tasks \/ ShutdownWork) /\ UNCHANGED <<fatal, nFaults>>)

\* ---------------------------------------------------------------- timers
\* The deadlines are long against the steps of the process: a deadline
\* passes only when the process has no step left to take.

\* The deadline of the contexts r.shutdown derives from GracefulShutdown's
\* (500 ms before it) passes: every initiateGracefulClose of those Rooms that
\* waits for the peer's answer goes on to cleanup.
ClientDeadline ==
    /\ Alive
    /\ hctx = "live"
    /\ \E k \in Calls : gpc[k] = "select"
    /\ Stuck
    /\ hctx' = "soon"
    /\ LET woken(o, c) == ownedByHub(o) /\ ipc[o][c] = "wait" IN
        /\ ipc' = [o \in RoomObjs |-> [c \in Clients |->
                      IF woken(o, c) THEN "cleanup" ELSE ipc[o][c]]]
        /\ clpc' = [c \in Clients |->
                      IF \E o \in RoomObjs : woken(o, c) THEN OnceDo(c) ELSE clpc[c]]
    /\ UNCHANGED <<fatal, hubVars, roomVars, initVars, clientVars, rpc, rmsg,
                   wpc, clRoom, errFrames, readErr, busVars, envVars, nFaults, nCalls,
                   isShuttingDown, shutdownCh, gpc, hpc, shutdownStarted, scall,
                   closeFrames>>

\* A timeout that only the goroutine of the phases and the Rooms watch:
\* GracefulShutdown itself waits for `done` alone, and returns nil when the
\* goroutine closes it.
DeadlinePhasesOnly ==
    /\ Alive
    /\ hctx = "soon"
    /\ \E k \in Calls : gpc[k] = "select"
    /\ Stuck
    /\ hctx' = "expired"
    /\ gpc' = [k \in Calls |-> IF gpc[k] = "select" THEN "nil" ELSE gpc[k]]
    /\ hpc' = IF hpc = "wait" THEN "done" ELSE hpc
    /\ scall' = [scall EXCEPT !["hub"] =
                    [o \in RoomObjs |-> IF @[o] = "body" THEN "err" ELSE @[o]]]
    /\ UNCHANGED <<fatal, hubVars, roomVars, initVars, clientVars, taskVars,
                   busVars, envVars, nFaults, nCalls, isShuttingDown, shutdownCh,
                   shutdownStarted, ipc, closeFrames>>

\* The timeout of GracefulShutdown expires: ctx.Done() is closed.
\* GracefulShutdown returns ctx.Err(); the goroutine of the phases leaves its
\* select and closes `done`; every r.shutdown GracefulShutdown started that
\* waits in its select returns ctx.Err().
Deadline ==
    /\ Alive
    /\ hctx = "soon"
    /\ \E k \in Calls : gpc[k] = "select"
    /\ Stuck
    /\ hctx' = "expired"
    /\ gpc' = [k \in Calls |-> IF gpc[k] = "select" THEN "err" ELSE gpc[k]]
    /\ hpc' = IF hpc = "wait" THEN "done" ELSE hpc
    /\ scall' = [scall EXCEPT !["hub"] =
                    [o \in RoomObjs |-> IF @[o] = "body" THEN "err" ELSE @[o]]]
    /\ UNCHANGED <<fatal, hubVars, roomVars, initVars, clientVars, taskVars,
                   busVars, envVars, nFaults, nCalls, isShuttingDown, shutdownCh,
                   shutdownStarted, ipc, closeFrames>>

\* The 3 s safety timer of initiateGracefulClose fires: no answer to the
\* close frame has closed closeAckCh.
closeWaitTimeout(o, c) ==
    /\ Alive
    /\ ipc[o][c] = "wait"
    /\ Stuck
    /\ ipc' = [ipc EXCEPT ![o][c] = "cleanup"]
    /\ clpc' = [clpc EXCEPT ![c] = OnceDo(c)]
    /\ UNCHANGED <<fatal, hubVars, roomVars, initVars, clientVars, rpc, rmsg,
                   wpc, clRoom, errFrames, readErr, busVars, envVars, nFaults, nCalls,
                   isShuttingDown, shutdownCh, gpc, hctx, hpc, shutdownStarted,
                   scall, closeFrames>>

\* --------------------------------------------------- the specifications
\* A connection arrives at the engine at rest.
Arrival ==
    \E c \in Clients : \E u \in UsersFor(c), table \in Tables : ServeWs(c, u, table)

\* The engine at rest and hub.GracefulShutdown: the first call finds the
\* engine calm, and no connection arrives after it.
ShutdownNext ==
    \/ Arrival /\ ~isShuttingDown
    \/ Tasks
    \/ \E k \in Calls : GracefulShutdown(k) /\ (isShuttingDown \/ Calm)
    \/ ShutdownWork
    \/ ClientDeadline
    \/ Deadline
    \/ \E o \in RoomObjs, c \in Clients : closeWaitTimeout(o, c)

ShutdownSpec == Init /\ [][ShutdownNext]_vars

\* The engine at rest and Room.shutdown called by a caller of its own.
RoomShutdownNext ==
    \/ Arrival
    \/ Tasks
    \/ \E w \in Shutters, o \in RoomObjs : DirectShutdown(w, o)
    \/ \E o \in RoomObjs : shutdownReturn(o)
    \/ \E o \in RoomObjs, c \in Clients, ok \in BOOLEAN :
          initiateGracefulClose(o, c, ok)
    \/ \E o \in RoomObjs, c \in Clients, h \in BOOLEAN : ReadCloseAck(o, c, h)
    \/ \E o \in RoomObjs, c \in Clients : closeWaitTimeout(o, c)

RoomShutdownSpec == Init /\ [][RoomShutdownNext]_vars

\* The tasks of the engine without traffic when no cleanup is called but by
\* a reader (no reader finds its context done).
Upkeep ==
    \/ \E c \in Clients : initRLock(c)
    \/ \E c \in Clients : initializeRooms(c)
    \/ \E c \in Clients : addClient(c)
    \/ \E c \in Clients : initDone(c)
    \/ \E c \in Clients : RunRecvAdd(c)
    \/ RunAddLock
    \/ RunSubscribe
    \/ \E o \in RoomObjs : watchClients(o)
    \/ \E o \in RoomObjs : RunRecvRemove(o)
    \/ RunRemoveLock
    \/ RunUnsubscribe
    \/ \E c \in Clients : WriterCtxDone(c)
    \/ \E c \in Clients : cleanupStart(c)
    \/ \E c \in Clients : cleanupRange(c)
    \/ \E k \in Callers, c \in Clients : removeClientRLock(k, c)
    \/ \E k \in Callers, c \in Clients : removeClientDelete(k, c)

\* The steps of the engine that carry traffic: frames are read, handled and
\* published, the bus's messages are broadcast, the writers write, a Client
\* whose channel is full is evicted.
Traffic ==
    \/ \E c \in Clients : \E f \in FramesOf(user[c]) : readMessages(c, f)
    \/ \E c \in Clients, ok \in BOOLEAN : handleMessage(c, ok)
    \/ \E c \in Clients, ok \in BOOLEAN : WriterSend(c, ok)
    \/ \E c \in Clients : WriterClosed(c)
    \/ \E c \in Clients : cleanupFinish(c)
    \/ \E k \in Callers, c \in Clients : removeClientUnlink(k, c)
    \/ OnMessage
    \/ broadcastRLock
    \/ \E u \in Users : broadcastSpawn(u)
    \/ \E c \in Clients : trySend(c)
    \/ broadcastReturn
    \/ OnMessageReturn

\* The peer of a Client whose eviction begins goes away, the first to do so:
\* ReadJSON fails and the reader calls cleanup.
PeerGone(c) ==
    /\ fan[c] = "rm_rlock"
    /\ \A d \in Clients : clpc[d] = "none"
    /\ readReturn(c, readErrOf("close_1006"))
    /\ UNCHANGED nFaults

\* The engine under traffic that no failure of a write, of the bus or of the
\* database interrupts, among the connections made before it, with slow
\* peers that disconnect.
EvictionNext ==
    \/ Arrival /\ nFrames = 0
    \/ Upkeep
    \/ Traffic /\ UNCHANGED nFaults
    \/ \E c \in Clients : PeerGone(c)

EvictionSpec == Init /\ [][EvictionNext]_vars

\* The engine under traffic with readers whose ReadJSON fails in any of its
\* ways.
ReaderNext ==
    \/ Arrival
    \/ Upkeep
    \/ Traffic /\ UNCHANGED nFaults
    \/ \E c \in Clients : ReaderReadErrorAny(c)

ReaderSpec == Init /\ [][ReaderNext]_vars

\* -------------------------------------------------------------- claims
InRemoveClient(pc) == pc \in {"rm_rlock", "rm_delete", "rm_lockc"}

\* no addClient, removeClient, broadcast or cleanup step is in progress
Quiescent ==
    /\ Alive
    /\ opc = "idle"
    /\ \A c \in Clients : cpc[c] \in {"idle", "done"} /\ clpc[c] \in {"none", "done"}

\* C1: at every quiescent point, a Client is in a Room's client map exactly
\* when that Room is in the Client's room set.
C1_Membership ==
    Quiescent =>
        \A c \in Clients, o \in 1..nObjs :
            (c \in Members(o)) <=> (rooms[c][objId[o]] = o)

\* two connections are in the same Room at a quiescent point
C1_Witness ==
    /\ Quiescent
    /\ \E c, d \in Clients, o \in 1..nObjs :
          c # d /\ rooms[c][objId[o]] = o /\ rooms[d][objId[o]] = o

\* C2: whenever cleanup has returned, the Client's state is disconnected and
\* its send queue is closed.
C2_CleanupPostcondition ==
    \A c \in Clients :
        clpc[c] = "done" => cstate[c] = "disconnected" /\ closed[c]

C2_Witness == \E c \in Clients : clpc[c] = "done" /\ closed[c]

\* C3: cleanup has released the Client's room-set lock when it calls
\* Room.removeClient (so that the call cannot wait for that lock forever).
C3_LockReleasedBeforeRemove ==
    \A c \in Clients : InRemoveClient(clpc[c]) => ~cmW[c]

C3_Witness == \E c \in Clients : clpc[c] = "rm_lockc" /\ RoomSet(c) # {}

\* C4: every Room.broadcast call returns: a broadcast in progress is never
\* in a state in which no task of the process can take a step, where it
\* would wait forever.
C4_BroadcastReturns ==
    (Alive /\ opc \in {"b_rlock", "iter"}) => ENABLED Next

\* with no cleanup under way, a goroutine of the broadcast asks for the
\* Room's read lock again while an addClient waits for the write lock
C4_Witness ==
    /\ Alive
    /\ opc = "iter"
    /\ \A d \in Clients : clpc[d] = "none"
    /\ \E c \in Clients : fan[c] = "rm_rlock" /\ rWait[bRoom] # {}

C6_ExactlyOneAttempt ==
    opc = "ret" =>
        \A c \in Clients : natt[c] = (IF c \in snap THEN 1 ELSE 0)

C6_Witness == opc = "ret" /\ \E c \in snap : natt[c] = 0

\* C7: a message is enqueued only by the broadcast the Hub runs for it, so
\* when that broadcast returns every initialized Client with the message's
\* room in its room set, no cleanup under way and a queue that was not full
\* has had the message enqueued.
C7_EveryMemberEnqueued ==
    opc = "ret" =>
        \A c \in Clients :
            (/\ cpc[c] = "done"
             /\ clpc[c] = "none"
             /\ rooms[c][bMsg.Room] # NoRoom
             /\ att[c] # "full") => att[c] = "sent"

C7_Witness ==
    /\ opc = "ret"
    /\ \E c \in Clients :
          /\ cpc[c] = "done" /\ clpc[c] = "none"
          /\ rooms[c][bMsg.Room] # NoRoom
          /\ user[c] = bMsg.SenderID
          /\ att[c] = "none"

\* C8: after initialization every room id in a Client's room set is one
\* that chats_users listed for the Client's own user id.
C8_OnlyOwnRooms ==
    \A c \in Clients : cpc[c] = "done" => RoomSet(c) \subseteq oracle[c]

C8_Witness ==
    \E c \in Clients : cpc[c] = "done" /\ RoomSet(c) # {} /\ oracle[c] = {}

\* a step of handleMessage of Client c on a frame whose room is not in c's
\* room set
Denied(c) ==
    /\ rpc[c] = "handle"
    /\ rooms[c][rmsg[c].Room] = NoRoom
    /\ rpc'[c] # "handle"
    /\ fatal' = "no"

Stamped(m) == m.SenderID = m.Data /\ m.Iv = m.Room

\* C10: every message published to the bus, being broadcast, or delivered
\* to a send queue carries the room, data and iv of the inbound frame and,
\* as sender, the user id of the Client that read the frame.
C10_SenderIsReader ==
    /\ \A i \in DOMAIN inbound : Stamped(Unmarshal(inbound[i]))
    /\ bMsg # <<>> => Stamped(bMsg)
    /\ \A c \in Clients : \A i \in DOMAIN sendq[c] : Stamped(sendq[c][i])

C10_Witness ==
    \E c \in Clients : sendq[c] # <<>> /\ user[c] # Head(sendq[c]).SenderID

\* a Client is on its way into Room o (newRoom or addClient in progress)
Joining(o) == \E c \in Clients : cur[c] = o /\ cpc[c] \in {"send_add", "add"}

\* Room o is in the Hub registry and its last Client has left: the client
\* map is empty, nobody is joining, and every Client that still has the Room
\* in its room set is in cleanup
Deserted(o) ==
    /\ Alive
    /\ o <= nObjs
    /\ hubRooms[objId[o]] = o
    /\ Members(o) = {}
    /\ ~Joining(o)
    /\ \A c \in Clients : rooms[c][objId[o]] = o => clpc[c] # "none"

\* Run has taken Room o from its watcher, deleted the registry entry of its
\* id and issued the unsubscribe
Retired(o) ==
    /\ watch[o] = "done"
    /\ hubRooms[objId[o]] # o
    /\ ~(runRoom = o /\ runPc \in {"rm_lock", "rm_unsub"})

\* C11: a Room whose last Client has left is eventually out of the Hub
\* registry with the unsubscribe for its id issued.  Stated on the states
\* the process cannot leave by a step of its own: in such a state no Room is
\* still registered with its last Client gone (if no Client comes, it would
\* stay registered forever).
C11_EmptyRoomRetired ==
    \A o \in RoomObjs : Deserted(o) => ENABLED ProgNext

\* an emptied Room has been retired: registry entry and subscription gone
C11_Witness ==
    \E o \in 1..nObjs :
        /\ Retired(o)
        /\ hubRooms[objId[o]] = NoRoom
        /\ objId[o] \notin subs
        /\ rcount[o] < 1

\* a connected Client that a Room holds
Held(c) == cpc[c] = "done" /\ RoomSet(c) # {}

\* the first call of GracefulShutdown has returned
Returned == gpc[1] \in {"nil", "err"}

\* C12: once the first GracefulShutdown has returned, on a Hub whose Rooms
\* hold connected Clients whose peers answer and with nothing failing, it has
\* returned nil, its timeout has not expired, and every Client a Room holds
\* was sent the close frame (1001, "Server is shutting down").
C12_ShutdownReturnsNil ==
    (Returned /\ nFaults = 0 /\ \E c \in Clients : Held(c)) =>
        /\ gpc[1] = "nil"
        /\ hctx # "expired"
        /\ \A c \in Clients : Held(c) => closeFrames[c] >= 1

\* the close frames are sent: the call has returned, nothing failed, and
\* every Client a Room holds has its close frame
C12_Witness ==
    /\ Returned /\ nFaults = 0
    /\ \E c \in Clients : Held(c)
    /\ \A c \in Clients : Held(c) => closeFrames[c] = 1

\* a task that has returned (a reader or writer returns when the cleanup
\* its deferred handler called has)
ReaderOver(c) == rpc[c] = "off" \/ (rpc[c] = "cleanup" /\ clpc[c] = "done")
WriterOver(c) == wpc[c] = "off" \/ (wpc[c] = "cleanup" /\ clpc[c] = "done")
WatcherOver(o) == watch[o] \in {"none", "done"}
\* hub.Run returns from none of the cases of its select: no step of the
\* loop leaves it
RunOver == runPc = "returned"

\* C13: once the first GracefulShutdown has returned, every Client's reader
\* and writer, every Room's watcher and the Hub's Run loop have terminated.
C13_NoTaskRemains ==
    (Alive /\ Returned) =>
        /\ \A c \in Clients : ReaderOver(c) /\ WriterOver(c)
        /\ \A o \in RoomObjs : WatcherOver(o)
        /\ RunOver

\* the call has returned after a shutdown of Rooms that held Clients, whose
\* readers and writers have left their loops
C13_Witness ==
    /\ Alive /\ Returned
    /\ \E c \in Clients : Held(c)
    /\ \A c \in Clients : Held(c) => rpc[c] = "cleanup" /\ wpc[c] = "cleanup"

\* C14: a call of GracefulShutdown made after the first returns nil at once,
\* whatever the first is doing, and changes nothing of the shutdown: the
\* shutdown signal, the goroutine of the phases, the context, the calls of
\* Room.shutdown, the Rooms' flags and the close frames stay as they are.
C14_LaterCallsReturnNil ==
    [][\A k \in Calls :
          (isShuttingDown /\ gpc[k] = "idle" /\ gpc'[k] # "idle") =>
              /\ gpc'[k] = "nil"
              /\ fatal' = fatal
              /\ UNCHANGED <<shutdownCh, hpc, hctx, scall, ipc, shutdownStarted,
                             closeFrames>>]_vars

\* a later call has returned nil after the first timed out, with Clients
\* that were sent their close frame
C14_Witness ==
    /\ gpc[1] = "err" /\ gpc[2] = "nil"
    /\ \E c \in Clients : closeFrames[c] = 1

\* the calls of Room.shutdown that GracefulShutdown started have returned
\* (n, nil) or (0, nil)
RoomsCompleted == \A o \in RoomObjs : scall["hub"][o] \in {"none", "nil", "noop"}

CallsCleanup(c) ==
    \/ rpc[c] # "cleanup" /\ rpc'[c] = "cleanup"
    \/ wpc[c] # "cleanup" /\ wpc'[c] = "cleanup"
    \/ \E o \in RoomObjs : ipc[o][c] # "cleanup" /\ ipc'[o][c] = "cleanup"

\* C16: the body of cleanup is entered at most once per Client, and a call
\* of cleanup made once the body was entered (by the reader, the writer or
\* an initiateGracefulClose) changes nothing of the teardown: its position,
\* the Client's state, conn, context and room set stay, and the send
\* channel is not closed by it.
C16_CleanupOnce ==
    [][\A c \in Clients :
          /\ (clpc'[c] = "start" /\ fatal' = "no") => clpc[c] \in {"none", "start"}
          /\ (CallsCleanup(c) /\ clpc[c] # "none" /\ fatal' = "no") =>
                /\ clpc'[c] = clpc[c] /\ cstate'[c] = cstate[c]
                /\ conn'[c] = conn[c] /\ ctxDone'[c] = ctxDone[c]
                /\ rooms'[c] = rooms[c] /\ closed'[c] = closed[c]]_vars

\* the reader, the writer and an initiateGracefulClose of one Client have
\* all called cleanup, whose body was entered
C16_Witness ==
    \E c \in Clients, o \in RoomObjs :
        /\ rpc[c] = "cleanup" /\ wpc[c] = "cleanup" /\ ipc[o][c] = "cleanup"
        /\ clpc[c] \notin {"none", "start"}

\* the states out of which setState makes no transition
Closing(s) == s \in {"disconnecting", "disconnected", "error"}

\* C17: no Client is sent the shutdown close frame twice, and an
\* initiateGracefulClose that finds the Client's state already disconnecting
\* (or disconnected, or error) returns at once: it writes no frame, leaves
\* the state, the conn and the cleanup as they are.
C17_OneCloseFrame ==
    [][\A c \in Clients :
          /\ closeFrames'[c] <= 1
          /\ \A o \in RoomObjs :
                (ipc[o][c] = "start" /\ ipc'[o][c] # "start" /\ Closing(cstate[c])
                    /\ fatal' = "no") =>
                    /\ ipc'[o][c] = "done"
                    /\ closeFrames'[c] = closeFrames[c]
                    /\ cstate'[c] = cstate[c] /\ conn'[c] = conn[c]
                    /\ clpc'[c] = clpc[c]]_vars

\* a Client of two Rooms shut down together: one initiateGracefulClose wrote
\* the frame, the other returned at once
C17_Witness ==
    \E c \in Clients, o, p \in RoomObjs :
        /\ o # p
        /\ shutdownStarted[o] /\ shutdownStarted[p]
        /\ ipc[o][c] \in {"wait", "cleanup"} /\ ipc[p][c] = "done"
        /\ closeFrames[c] = 1

\* a call of Room.shutdown on Room o is entered in this step
Entered(w, o) == scall[w][o] \in {"none", "call"} /\ scall'[w][o] \notin {"none", "call"}

\* C18: the call of Room.shutdown that finds the flag clear sets it and
\* starts one initiateGracefulClose for every Client of the Room's client
\* set; a call that finds the flag set returns (0, nil) and leaves every
\* Client's closer, frame count, state and conn as they are.
C18_ShutdownOnce ==
    [][\A w \in Shutters, o \in RoomObjs :
          (Entered(w, o) /\ fatal' = "no") =>
              IF shutdownStarted[o]
              THEN /\ scall'[w][o] = "noop"
                   /\ ipc' = ipc /\ closeFrames' = closeFrames
                   /\ cstate' = cstate /\ conn' = conn /\ clpc' = clpc
                   /\ shutdownStarted' = shutdownStarted
              ELSE /\ scall'[w][o] \in {"body", "err"}
                   /\ shutdownStarted'[o]
                   /\ \A c \in Clients :
                         ipc'[o][c] = IF c \in Members(o) THEN "start"
                                      ELSE ipc[o][c]]_vars

\* a later call has returned (0, nil) while the first call still waits for
\* a Client it sent the close frame to
C18_Witness ==
    \E o \in RoomObjs, c \in Clients :
        /\ scall["direct"][o] = "body" /\ scall["again"][o] = "noop"
        /\ ipc[o][c] = "wait" /\ closeFrames[c] = 1

\* C19: in a step taken while Room o's shutdownStarted flag is set, the
\* Room's client set gains no Client and no Client's room set gains the
\* Room.
C19_NoAddAfterShutdown ==
    [][\A o \in RoomObjs :
          shutdownStarted[o] =>
              /\ Members(o)' \subseteq Members(o)
              /\ \A c \in Clients, r \in RoomIds :
                    rooms'[c][r] = o => rooms[c][r] = o]_vars

\* addClient is about to run on a Room whose shutdownStarted flag is set
C19_Witness ==
    \E c \in Clients :
        /\ cpc[c] = "add" /\ shutdownStarted[cur[c]]
        /\ c \notin Members(cur[c])
        /\ rReaders[cur[c]] = 0
        /\ fatal = "no"

\* an earlier removeClient(c) on the Room of call k has made its delete and
\* its decrement
RemovedBefore(k, c) ==
    \E k2 \in Callers \ {k} :
        rmPc(k2, c) = "rm_lockc" /\ rmRoom(k2, c) = rmRoom(k, c)

\* C20: a removeClient that makes its delete for a Client and a Room for
\* which an earlier removeClient has already made its own leaves the Room's
\* client set, the Room's client count and the Client's room set as the
\* earlier call left them.
C20_SecondRemoveChangesNothing ==
    [][\A k \in Callers, c \in Clients :
          (/\ rmPc(k, c) = "rm_delete"
           /\ rmPc(k, c)' = "rm_lockc"
           /\ RemovedBefore(k, c)) =>
              /\ rclients' = rclients
              /\ rcount' = rcount
              /\ rooms' = rooms]_vars

\* a second removeClient for the same Client and Room is at its delete
C20_Witness ==
    \E k \in Callers, c \in Clients :
        /\ rmPc(k, c) = "rm_delete"
        /\ RemovedBefore(k, c)
        /\ fatal = "no"

\* C21: a membership query that fails while a Client is constructed ends
\* with the socket closed and neither task started: the reader and the
\* writer are never started on the nil Client that newClient returned,
\* where their first dereference kills the process.
C21_QueryFailureHandled == fatal # "nil_client"

\* a connection can arrive while the database can still fail
C21_Witness ==
    /\ fatal = "no"
    /\ \E c \in Clients : cpc[c] = "idle" /\ ENABLED ServeWsDbError(c)
    /\ \E d \in Clients : cpc[d] = "done"

\* C22: a step of Client c's termination (the call of its cleanup after a
\* read error, a write error, an invalid frame or a publish failure, and
\* every step of that cleanup) changes nothing for any other Client d: its
\* lifecycle state, its conn, its room set, its queued messages and its
\* place in every Room's client set are as before.
C22_FailureIsLocal ==
    [][\A c \in Clients :
          clpc'[c] # clpc[c] =>
              \A d \in Clients \ {c} :
                  /\ cstate'[d] = cstate[d] /\ conn'[d] = conn[d]
                  /\ rooms'[d] = rooms[d]
                  /\ sendq'[d] = sendq[d] /\ closed'[d] = closed[d]
                  /\ \A o \in RoomObjs :
                        d \in Members(o) => d \in Members(o)']_vars

\* the cleanup of a failed Client is at its removeClient for a Room that
\* holds another Client
C22_Witness ==
    \E c \in Clients : \E d \in Clients \ {c} :
        /\ clpc[c] = "rm_delete" /\ rpc[c] = "cleanup"
        /\ d \in Members(clRoom[c])
        /\ cstate[d] = "connected"
        /\ fatal = "no"

\* C23: a reader that left its loop because a frame was over the maximum
\* frame size (ReadJSON returned the read-limit error) has a readErr of the
\* kind ErrMessageTooLarge: errors.Is(readErr, ErrMessageTooLarge).
C23_TooLargeKind ==
    \A c \in Clients :
        errorsIs(readErr[c], "read_limit") =>
            errorsIs(readErr[c], "ErrMessageTooLarge")

\* a reader has ended on a frame over the limit and called cleanup
C23_Witness ==
    \E c \in Clients :
        /\ errorsIs(readErr[c], "read_limit")
        /\ rpc[c] = "cleanup" /\ clpc[c] # "none"

\* C24: no task takes a Room's clientsMutex while it holds a Client's
\* roomsMutex: the cleanup of Client c does not hold c.roomsMutex in the
\* step in which its removeClient takes the Room's read lock.
C24_RoomLockFirst ==
    [][\A c \in Clients :
          (clpc[c] = "rm_rlock" /\ clpc'[c] = "rm_delete") => ~cmW[c]]_vars

\* a cleanup that holds c.roomsMutex is about to take a Room's read lock,
\* which no waiting writer refuses
C24_Witness ==
    \E c \in Clients :
        /\ clpc[c] = "rm_rlock" /\ cmW[c]
        /\ rWait[clRoom[c]] = {}
        /\ fatal = "no"

\* a Client is inside newClient's initializeRooms
Initializing(c) == cpc[c] \notin {"idle", "done"}

\* C25: an initialization always has a way on: with no cleanup and no
\* broadcast under way, a state in which a Client is initializing is never
\* one in which no task of the process can take a step (newRoom parked on
\* hub.addRoom while the Run loop waits for the registry write lock that
\* the initialization's read lock refuses).
C25_InitializationCompletes ==
    (/\ Alive
     /\ \E c \in Clients : Initializing(c)
     /\ \A d \in Clients : clpc[d] = "none"
     /\ opc = "idle") => ENABLED ProgNext

\* a Client creates its second Room while the Run loop, which received the
\* first, waits for the registry write lock
C25_Witness ==
    \E c \in Clients :
        /\ cpc[c] = "send_add" /\ cur[c] = 2
        /\ runPc = "add_lock" /\ hubWait /\ hubReaders = 1
        /\ \A d \in Clients \ {c} : cpc[d] = "idle"
        /\ fatal = "no"

\* C26: once the context of Client c is cancelled, its reader and its
\* writer come to return from their deferred handlers: as long as one of
\* them has not, some task of the process has a step to take (the state is
\* not one in which they would wait forever).
C26_TasksTerminate ==
    \A c \in Clients :
        (Alive /\ ctxDone[c] /\ ~(ReaderOver(c) /\ WriterOver(c))) =>
            ENABLED ProgNext

\* the context is cancelled and both tasks have left their loops and wait
\* in their deferred handlers for the one execution of cleanup
C26_Witness ==
    \E c \in Clients :
        /\ ctxDone[c]
        /\ rpc[c] = "cleanup" /\ wpc[c] = "cleanup"
        /\ clpc[c] \notin {"none", "done"}
        /\ fatal = "no"

\* C27: a Client whose cleanup has run as far as it will (it was called and
\* no task of the process has a step left) is in no Room's client set.
C27_CleanedClientInNoRoom ==
    \A c \in Clients :
        (Alive /\ clpc[c] # "none" /\ ~ENABLED ProgNext) =>
            \A o \in RoomObjs : c \notin Members(o)

\* the cleanup of a Client of two Rooms has taken it out of one of them
C27_Witness ==
    \E c \in Clients, o, p \in RoomObjs :
        /\ o # p
        /\ clpc[c] = "rm_lockc" /\ clRoom[c] = o
        /\ c \notin Members(o) /\ c \in Members(p)
        /\ fatal = "no"

\* Client c, connected as a user who has chats, has been taken out of all
\* its Rooms by evictions (no cleanup of it was called)
Evicted(c) ==
    /\ cpc[c] = "done" /\ oracle[c] # {}
    /\ RoomSet(c) = {}
    /\ \A o \in RoomObjs : c \notin Members(o)

\* C28: the cleanup of a Client that a broadcast evicted is invoked in the
\* end: when the process has no step left to take, no evicted Client is
\* left whose cleanup was never called.
C28_EvictedIsCleanedUp ==
    \A c \in Clients :
        (Alive /\ Evicted(c) /\ ~ENABLED ProgNext) => clpc[c] # "none"

\* a broadcast found the Client's channel full and its removeClient has
\* returned
C28_Witness ==
    \E c \in Clients :
        /\ fan[c] = "done" /\ att[c] = "full"
        /\ Evicted(c) /\ conn[c]
        /\ fatal = "no"

\* the place of a lifecycle state on connected -> disconnecting ->
\* disconnected (a Client not yet constructed has none)
StateRank(s) ==
    CASE s = "none" -> 0
      [] s = "connected" -> 1
      [] s = "disconnecting" -> 2
      [] OTHER -> 3

\* C29: in every step of a living process the lifecycle state of a Client
\* stays or moves forward, never back; and a step that makes it
\* disconnected is the last step of that Client's cleanup.
C29_StateMovesForward ==
    [][\A c \in Clients :
          fatal' = "no" =>
              /\ StateRank(cstate'[c]) >= StateRank(cstate[c])
              /\ (cstate'[c] = "disconnected" /\ cstate[c] # "disconnected")
                    => (clpc[c] = "loop" /\ clpc'[c] = "done")]_vars

\* a cleanup has run to its end: the state went from connected to
\* disconnecting and both calls of setState were made
C29_Witness ==
    \E c \in Clients :
        /\ clpc[c] = "done" /\ closed[c]
        /\ cstate[c] \in {"disconnecting", "disconnected"}
        /\ fatal = "no"

\* C30: the reader writes no "Access Denied" frame to the socket: a step of
\* handleMessage on a frame for a room outside the room set leaves the
\* count of error frames the reader wrote as it is, and when the reader
\* goes on the frame is in the Client's send queue, for the writer.
C30_DeniedGoesThroughWriter ==
    [][\A c \in Clients :
          Denied(c) =>
              /\ errFrames'[c] = errFrames[c]
              /\ rpc'[c] = "read" => Len(sendq'[c]) = Len(sendq[c]) + 1]_vars

\* the reader is to answer a frame for a room outside the room set while
\* the writer runs and the socket is open
C30_Witness ==
    \E c \in Clients :
        /\ rpc[c] = "handle" /\ rooms[c][rmsg[c].Room] = NoRoom
        /\ wpc[c] = "run" /\ conn[c] /\ ~cmW[c]
        /\ fatal = "no"

\* the tasks whose next step writes to the socket of Client c: the writer
\* has a message to write, the reader an "Access Denied" frame, an
\* initiateGracefulClose or the cleanup its close frame.  Each takes the
\* conn with getConn and writes with no lock held.
SocketWriters(c) ==
    {t \in {"writer", "reader", "closer", "cleanup"} :
        /\ fatal = "no" /\ conn[c]
        /\ \/ t = "writer" /\ wpc[c] = "run" /\ sendq[c] # <<>>
           \/ t = "reader" /\ rpc[c] = "handle" /\ ~cmW[c]
                           /\ rooms[c][rmsg[c].Room] = NoRoom
           \/ t = "closer" /\ setStateReturn(cstate[c])
                           /\ \E o \in RoomObjs : ipc[o][c] = "start"
           \/ t = "cleanup" /\ clpc[c] = "start" /\ ~cmW[c]}

\* C31: at most one task is at a write to a Client's socket at any moment.
C31_OneSocketWriter ==
    \A c \in Clients : Cardinality(SocketWriters(c)) <= 1

\* the reader alone is at a write to the socket
C31_Witness ==
    \E c \in Clients : SocketWriters(c) = {"reader"} /\ wpc[c] = "run"

\* the keys of the Hub registry
RegistryKeys == {id \in RoomIds : hubRooms[id] # NoRoom}

\* C32: whenever the Run loop is back at its select (every request it has
\* received is processed), the bus channels subscribed to are exactly the
\* room-<id> of the registry's keys.
C32_SubscriptionsMatchRegistry ==
    runPc = "select" => subs = RegistryKeys

\* the loop has processed an add and a remove, one room is still
\* registered and subscribed, the removed one is neither
C32_Witness ==
    /\ runPc = "select" /\ fatal = "no"
    /\ \A c \in Clients : cpc[c] # "send_add"
    /\ \A o \in RoomObjs : watch[o] # "send"
    /\ \E o \in RoomObjs :
        /\ watch[o] = "done" /\ objId[o] \notin subs
        /\ hubRooms[objId[o]] = NoRoom
    /\ subs # {}

\* C33: two Clients with the same room id in their room sets hold the same
\* Room object.
C33_OneRoomObjectPerId ==
    fatal = "no" =>
        \A c \in Clients : \A d \in Clients : \A r \in RoomIds :
            rooms[c][r] # NoRoom /\ rooms[d][r] # NoRoom => rooms[c][r] = rooms[d][r]

\* two Clients share a room id and hold one Room object for it
C33_Witness ==
    /\ fatal = "no"
    /\ \E c \in Clients : \E d \in Clients \ {c} : \E r \in RoomIds :
        rooms[c][r] # NoRoom /\ rooms[c][r] = rooms[d][r]

\* C34: every Room that has a Client in its client set is in the Hub
\* registry once hub.Run has nothing of that Room left to process (its add
\* request is done and the loop is back at its select).
C34_OccupiedRoomIsRegistered ==
    fatal = "no" =>
        \A o \in RoomObjs :
            (o <= nObjs /\ RKeys(o) # {} /\ runPc = "select" /\ watch[o] # "send")
            => hubRooms[objId[o]] = o /\ objId[o] \in subs

\* a Client is in a Room that is registered and subscribed
C34_Witness ==
    /\ fatal = "no" /\ runPc = "select"
    /\ \E o \in RoomObjs :
        /\ o <= nObjs /\ RKeys(o) # {}
        /\ hubRooms[objId[o]] = o /\ objId[o] \in subs

\* C35: a Room's atomic client count equals the number of entries of its
\* client set and is never negative.
C35_CountMatchesClientSet ==
    fatal = "no" =>
        \A o \in RoomObjs :
            o <= nObjs => rcount[o] = Cardinality(RKeys(o)) /\ rcount[o] >= 0

\* a removeClient has deleted a Client from a Room whose count is right
C35_Witness ==
    /\ fatal = "no"
    /\ \E k \in Callers : \E c \in Clients :
        /\ rmPc(k, c) = "rm_lockc"
        /\ rcount[rmRoom(k, c)] = Cardinality(RKeys(rmRoom(k, c)))

\* C36: no fan-out task attempts to enqueue into a send queue that cleanup
\* has closed.
C36_NoSendOnClosedQueue ==
    /\ fatal # "send_on_closed"
    /\ \A c \in Clients : fan[c] = "try" => ~closed[c]

\* a fan-out task is about to enqueue for a Client whose cleanup is running
\* and has passed its cancel and its socket close
C36_Witness ==
    /\ fatal = "no"
    /\ \E c \in Clients :
        fan[c] = "try" /\ clpc[c] \notin {"none", "start"} /\ ~closed[c]

\* the tasks that hold a Room's clientsMutex for reading: a broadcast
\* iterating the client set and removeClient calls between RLock and
\* RUnlock
C37_ModifiesUnderReadLock(o) ==
    \E k \in Callers : \E c \in Clients :
        rmPc(k, c) = "rm_delete" /\ rmRoom(k, c) = o

\* C37: a Room's client set is never modified while another task iterates
\* or modifies it.
C37_ClientSetAccessExclusive ==
    /\ fatal # "map_race"
    /\ \A o \in RoomObjs :
        C37_ModifiesUnderReadLock(o) =>
            /\ ~(opc = "iter" /\ bRoom = o /\ RKeys(o) \ visited # {})
            /\ Cardinality({kc \in Callers \X Clients :
                   rmPc(kc[1], kc[2]) = "rm_delete" /\ rmRoom(kc[1], kc[2]) = o}) <= 1

\* a removeClient is at its delete with no other task in the client set
C37_Witness ==
    /\ fatal = "no"
    /\ \E o \in RoomObjs :
        /\ C37_ModifiesUnderReadLock(o)
        /\ opc # "iter"
        /\ rReaders[o] = 1

\* the ways the process dies of a fault raised inside a reader, a writer, a
\* fan-out task or a shutdown task (a bus-stream failure in hub.Run is not
\* one of them)
TaskFaults == {"nil_client", "map_race", "send_on_closed"}

\* C38: a fault raised inside a fan-out task, a reader, a writer or a
\* shutdown task never brings down the process.
C38_TaskFaultsAreContained ==
    fatal \notin TaskFaults

\* a reader has ended with an error that became the terminating error of
\* its Client while the reader of another Client goes on
C38_Witness ==
    /\ fatal = "no"
    /\ \E c \in Clients : \E d \in Clients \ {c} :
        rpc[c] = "cleanup" /\ readErr[c] # <<>> /\ rpc[d] = "read"

\* ------------------------------------------------------ retry.WithRetry
\* Every variable of the server, which a startup step leaves alone.
serverVars == <<fatal, hubVars, roomVars, initVars, clientVars, taskVars, busVars,
                db, oracle, nFrames, nFaults, sdVars>>

\* what one call of the wrapped function gives: a result, or an error
Errors == {"transient", "permanent"}
Outcomes == {"ok"} \cup Errors

\* DefaultRetryConfig.  Durations are counted in seconds; Multiplier (a
\* float64) is kept as a number of halves, 2.0 being 4 halves.
DefaultMaxAttempts == 5
DefaultDelay == 1
DefaultMaxDelay == 30
DefaultMultiplier == 4
DefaultRetryConfig ==
    [MaxAttempts |-> DefaultMaxAttempts, Delay |-> DefaultDelay,
     MaxDelay |-> DefaultMaxDelay, Multiplier |-> DefaultMultiplier,
     RetryableErr |-> Errors]

\* the RetryConfig values a caller passes: RetryableErr is given by the set
\* of errors it answers true for
MaxTries == 3
MaxDuration == 3
RetryConfigs ==
    {DefaultRetryConfig} \cup
    [MaxAttempts : 0..MaxTries, Delay : 1..MaxDuration, MaxDelay : 1..MaxDuration,
     Multiplier : {1, 2, 3, 4}, RetryableErr : {Errors, {"transient"}}]

\* time.Duration(float64(currentDelay) * config.Multiplier), then the cap
NextDelay(config, currentDelay) ==
    LET d == (currentDelay * config.Multiplier) \div 2 IN
    IF d > config.MaxDelay THEN config.MaxDelay ELSE d

\* the closure WithRetry returns is called: lastErr is nil, currentDelay is
\* config.Delay, attempt is 0
WithRetry(config) ==
    [pc |-> "loop", config |-> config, attempt |-> 0, currentDelay |-> config.Delay,
     lastErr |-> "nil", outs |-> <<>>, slept |-> <<>>, result |-> "none", err |-> "nil"]

\* one pass of the loop body up to the sleep: fn is called and gives `out`
retryAttempt(out) ==
    /\ retry.pc = "loop"
    /\ retry.attempt < retry.config.MaxAttempts
    /\ retry' =
        IF out = "ok"
        THEN [retry EXCEPT !.pc = "returned", !.outs = Append(@, out),
                           !.result = "value", !.err = "nil"]
        ELSE IF out \notin retry.config.RetryableErr
        THEN [retry EXCEPT !.pc = "returned", !.outs = Append(@, out),
                           !.lastErr = out, !.result = "zero", !.err = out]
        ELSE IF retry.attempt < retry.config.MaxAttempts - 1
        THEN [retry EXCEPT !.pc = "sleep", !.outs = Append(@, out), !.lastErr = out]
        ELSE [retry EXCEPT !.attempt = @ + 1, !.outs = Append(@, out),
                           !.lastErr = out]
    /\ UNCHANGED <<serverVars, boot>>

\* time.Sleep(currentDelay), the next delay, attempt++
retrySleep ==
    /\ retry.pc = "sleep"
    /\ retry' = [retry EXCEPT !.pc = "loop",
                              !.slept = Append(@, retry.currentDelay),
                              !.currentDelay = NextDelay(retry.config, @),
                              !.attempt = @ + 1]
    /\ UNCHANGED <<serverVars, boot>>

\* the loop is over: return zero, lastErr
retryGiveUp ==
    /\ retry.pc = "loop"
    /\ retry.attempt >= retry.config.MaxAttempts
    /\ retry' = [retry EXCEPT !.pc = "returned", !.result = "zero",
                              !.err = retry.lastErr]
    /\ UNCHANGED <<serverVars, boot>>

RetryInit ==
    /\ InitServer
    /\ boot = Connected
    /\ \E config \in RetryConfigs : retry = WithRetry(config)

RetryNext ==
    \/ \E out \in Outcomes : retryAttempt(out)
    \/ retrySleep
    \/ retryGiveUp

RetrySpec == RetryInit /\ [][RetryNext]_vars

\* the calls made so far, but the last, gave retryable errors
C39_EarlierRetryable ==
    \A i \in 1..(Len(retry.outs) - 1) : retry.outs[i] \in retry.config.RetryableErr

\* what the call returned is what its last attempt gave
C39_Returned ==
    LET n == Len(retry.outs)
        last == IF n = 0 THEN "nil" ELSE retry.outs[n] IN
    \/ last = "ok" /\ retry.result = "value" /\ retry.err = "nil"
    \/ /\ last \in Errors \ retry.config.RetryableErr
       /\ retry.result = "zero" /\ retry.err = last
    \/ /\ last \in retry.config.RetryableErr \cup {"nil"}
       /\ n = retry.config.MaxAttempts
       /\ retry.result = "zero" /\ retry.err = last

\* the calls and the result, without the delays
C39_Attempts ==
    /\ Len(retry.outs) <= retry.config.MaxAttempts
    /\ C39_EarlierRetryable
    /\ retry.pc = "returned" => C39_Returned

\* C39: the function WithRetry returns calls fn at most MaxAttempts times,
\* returns on the first success, stops on the first error that is not
\* retryable, else returns the last error after exactly MaxAttempts failed
\* attempts; no delay between attempts exceeds MaxDelay.
C39_WithRetry ==
    retry.pc # "none" =>
        /\ C39_Attempts
        /\ \A i \in 1..Len(retry.slept) : retry.slept[i] <= retry.config.MaxDelay

\* a call has slept between failed attempts and returned the last error
\* after MaxAttempts of them
C39_Witness ==
    /\ retry.pc = "returned"
    /\ retry.config.MaxAttempts >= 2
    /\ Len(retry.outs) = retry.config.MaxAttempts
    /\ retry.err \in Errors
    /\ Len(retry.slept) = retry.config.MaxAttempts - 1

\* -------------------------------------------- main of the websocket server
\* var connectionAttempts = 0; var connectionPause = 5 (seconds)
InitialPause == 5
PauseStep == 5
AttemptLimit == 5

\* One pass of `for !isConnected`: database.NewDatabaseInst succeeds, or it
\* fails and main sleeps or panics.  `failed` counts the calls that failed,
\* `pauses` lists the sleeps.  A panic in main ends the process before the
\* Hub exists.
bootConnect(ok) ==
    /\ Alive
    /\ boot.pc = "loop"
    /\ IF ok
       THEN /\ boot' = [boot EXCEPT !.pc = "migrate"]
            /\ UNCHANGED fatal
       ELSE IF boot.connectionAttempts <= AttemptLimit
       THEN /\ boot' = [boot EXCEPT !.pc = "sleep", !.failed = @ + 1,
                                    !.connectionAttempts = @ + 1]
            /\ UNCHANGED fatal
       ELSE /\ boot' = [boot EXCEPT !.pc = "panicked", !.failed = @ + 1]
            /\ fatal' = "startup"
    /\ UNCHANGED <<hubVars, roomVars, initVars, clientVars, taskVars, busVars,
                   db, oracle, nFrames, nFaults, sdVars, retry>>

\* time.Sleep(connectionPause seconds); connectionPause += 5
bootSleep ==
    /\ Alive
    /\ boot.pc = "sleep"
    /\ boot' = [boot EXCEPT !.pc = "loop",
                            !.pauses = Append(@, boot.connectionPause),
                            !.connectionPause = @ + PauseStep]
    /\ UNCHANGED <<serverVars, retry>>

\* dbInst.Migrate(), and on success the call of the function WithRetry
\* returned for the bus client (config nil: DefaultRetryConfig)
bootMigrate(ok) ==
    /\ Alive
    /\ boot.pc = "migrate"
    /\ IF ok
       THEN /\ boot' = [boot EXCEPT !.pc = "valkey"]
            /\ retry' = WithRetry(DefaultRetryConfig)
            /\ UNCHANGED fatal
       ELSE /\ boot' = [boot EXCEPT !.pc = "panicked"]
            /\ fatal' = "startup"
            /\ UNCHANGED retry
    /\ UNCHANGED <<hubVars, roomVars, initVars, clientVars, taskVars, busVars,
                   db, oracle, nFrames, nFaults, sdVars>>

\* connectValkeyClient() has returned: panic(err), or NewHub and go hub.Run()
bootValkey ==
    /\ Alive
    /\ boot.pc = "valkey"
    /\ retry.pc = "returned"
    /\ IF retry.err = "nil"
       THEN /\ boot' = [boot EXCEPT !.pc = "connected"]
            /\ UNCHANGED fatal
       ELSE /\ boot' = [boot EXCEPT !.pc = "panicked"]
            /\ fatal' = "startup"
    /\ UNCHANGED <<hubVars, roomVars, initVars, clientVars, taskVars, busVars,
                   db, oracle, nFrames, nFaults, sdVars, retry>>

StartupInit ==
    /\ InitServer
    /\ retry = NoCall
    /\ boot = [pc |-> "loop", connectionAttempts |-> 0,
               connectionPause |-> InitialPause, failed |-> 0, pauses |-> <<>>]

StartupNext ==
    \/ \E ok \in BOOLEAN : bootConnect(ok)
    \/ bootSleep
    \/ \E ok \in BOOLEAN : bootMigrate(ok)
    \/ RetryNext
    \/ bootValkey

StartupSpec == StartupInit /\ [][StartupNext]_vars

\* C40: main gives up connecting to the database after 5 failed attempts,
\* and the pauses between attempts grow.
C40_GivesUpAfterFive ==
    boot # Connected =>
        /\ boot.failed <= 5
        /\ \A i \in 1..(Len(boot.pauses) - 1) : boot.pauses[i] < boot.pauses[i + 1]

\* main has failed to connect, slept a longer time and failed again
C40_Witness ==
    /\ boot # Connected
    /\ boot.pc = "sleep"
    /\ boot.failed = 3
    /\ boot.pauses = <<5, 10>>

====
